---------------------------- MODULE Spec2Model ----------------------------
(***************************************************************************)
(* A model of the e-commerce analysis pipeline of complete_analysis/:      *)
(* the six stage scripts (quality assessment, exploratory analysis,        *)
(* hypothesis generation, visualization, code generation, report           *)
(* generation), the files they read and write, and the tabular            *)
(* computations they share with the generated modules (joins, IQR outlier  *)
(* fences, correlation scans, weighted quality scores).                    *)
(*                                                                         *)
(* Numbers are exact integers: a score is kept in hundredths, a quartile   *)
(* in quarters, a fence in eighths, so that every comparison the code      *)
(* makes in floating point is made here without rounding error.            *)
(***************************************************************************)
EXTENDS Integers, Sequences, FiniteSets, TLC

VARIABLES
    \* ---- the tables of data_dir the joins work on, and what each join produced
    tables,        \* dataset name -> [loaded, rows]: the table read from its CSV, if any
    data,          \* DataPreprocessor.data: the merged tables merge_datasets stored
    cross,         \* ExploratoryDataAnalysis.cross_dataset_analysis: its two `merged` frames
    behavior,      \* EcommerceAnalyzer.analyze_customer_behavior: its `merged` frame
    \* ---- DataQualityAssessment.calculate_overall_score
    scores,        \* the four component scores handed in, in hundredths of a point
    overall,       \* the overall score returned, in hundredths of a point
    \* ---- the three IQR outlier detectors
    df,            \* the numeric columns of one table, in column order; a cell is <<v>> or <<>> (missing)
    accuracy,      \* DataQualityAssessment.assess_accuracy: its outlier_count
    anomalies,     \* ExploratoryDataAnalysis.detect_anomalies: its statistical_outliers
    checked,       \* DataQualityValidator.check_accuracy: its columns_with_outliers
    \* ---- the correlation scans
    numeric_df,    \* the numeric columns of one table, in column order
    correlations,  \* ExploratoryDataAnalysis.analyze_correlations: its two lists
    strong_corrs,  \* EcommerceAnalyzer.correlation_analysis: its strong_correlations
    \* ---- the stage scripts and the file system
    data_dir_exists, \* whether data_storage/ exists
    data_storage,  \* CSV file name -> "readable", "unreadable" (pd.read_csv fails) or "absent"
    files,         \* path -> [writer, content] for every file a stage has written
    reads,         \* <<stage, path>> for every file a stage has opened for reading
    writes,        \* <<stage, path>> for every file a stage has written
    status,        \* stage -> "not run", "complete" or "raised" (its last run)
    loaded,        \* stage -> the datasets its last run loaded
    \* ---- generated_code: CompleteAnalysisPipeline.run and export_results
    raw,           \* dataset name -> what its CSV of data_dir holds ("absent" if it did not load)
    data_keys,     \* DataPreprocessor.data: the names of the tables it holds
    validated,     \* the names passed to DataQualityValidator.validate_dataset in this run
    analyzed,      \* the names of the tables passed to an EcommerceAnalyzer function in this run
    run_results,   \* CompleteAnalysisPipeline.results: key -> value, each value by its Python type
    run_pc,        \* the stage of run() reached, or "raised"
    exported,      \* export_results: "not run", "written" or "raised"
    \* ---- generated_code: DataQualityValidator on one table
    frame,         \* the table handed in, a sequence of rows; a cell is <<v>> or <<>> (missing)
    completeness,  \* check_completeness: what it returned
    consistency,   \* check_consistency: what it returned
    validation,    \* validate_dataset: what it returned
    \* ---- generated_code: EcommerceAnalyzer on one orders table
    orders_df,     \* the table handed in: [columns, rows]; both functions add columns to it
    order_metrics, \* calculate_order_metrics: [raised, metrics]
    temporal,      \* temporal_analysis: what it returned
    \* ---- DataQualityAssessment on one dataset
    quality_df,    \* the dataset: [order_id, price, dates], column by column
    quality_result, \* the result run_assessment stored for it
    \* ---- DataQualityAssessment.assess_accuracy on one table
    accuracy_df,    \* the table: column name -> cells
    accuracy_result, \* the dictionary assess_accuracy returned for it
    \* ---- shared
    called         \* the operations that have run

mergeVars == <<tables, data, cross, behavior>>
scoreVars == <<scores, overall>>
iqrVars == <<df, accuracy, anomalies, checked>>
corrVars == <<numeric_df, correlations, strong_corrs>>
pipeVars == <<data_dir_exists, data_storage, files, reads, writes, status, loaded>>

runVars == <<raw, data_keys, validated, analyzed, run_results, run_pc, exported>>
validatorVars == <<frame, completeness, consistency, validation>>
analyzerVars == <<orders_df, order_metrics, temporal>>
assessVars == <<quality_df, quality_result>>
accuracyVars == <<accuracy_df, accuracy_result>>
genVars == <<runVars, validatorVars, analyzerVars, assessVars, accuracyVars>>

vars == <<mergeVars, scoreVars, iqrVars, corrVars, pipeVars, genVars, called>>

-----------------------------------------------------------------------------
(* Shared helpers *)

NaN == [nan |-> TRUE]

Max(a, b) == IF a >= b THEN a ELSE b

Min(a, b) == IF a <= b THEN a ELSE b

SeqsUpTo(S, n) == UNION {[1..k -> S] : k \in 0..n}

\* A mapping without keys.
EmptyMap == <<>>

-----------------------------------------------------------------------------
(* DataQualityAssessment.calculate_overall_score *)

ScoreGrid == 7

FullScore == 10000     \* 100.00 points, in hundredths

\* The component scores tried: ScoreGrid + 1 values from 0.00 to 100.00.
ScoreChoices == {(k * FullScore) \div ScoreGrid : k \in 0..ScoreGrid}

Components == {"completeness", "accuracy", "consistency", "timeliness"}

\* The weights, in hundredths.
weights_heavier_accuracy ==
    [completeness |-> 35, accuracy |-> 35, consistency |-> 20, timeliness |-> 15]

weights ==
    [completeness |-> 35, accuracy |-> 30, consistency |-> 20, timeliness |-> 15]

\* The weighted sum, in ten-thousandths of a point.
WeightedSum(s) ==
    s.completeness * weights.completeness + s.accuracy * weights.accuracy
    + s.consistency * weights.consistency + s.timeliness * weights.timeliness

\* round(x, 2) of a value given in ten-thousandths: the nearest hundredth. On
\* an exact tie the binary float of x lies a hair to one side or the other, so
\* either neighbour can come out.
round2(x) ==
    LET q == x \div 100
        r == x % 100
    IN IF r < 50 THEN {q} ELSE IF r > 50 THEN {q + 1} ELSE {q, q + 1}

calculate_overall_score ==
    /\ "calculate_overall_score" \notin called
    /\ called' = called \cup {"calculate_overall_score"}
    /\ overall' \in round2(WeightedSum(scores))
    /\ UNCHANGED <<scores, mergeVars, iqrVars, corrVars, pipeVars, genVars>>

ScoreIdle ==
    /\ scores = [c \in Components |-> 0]
    /\ overall = 0

-----------------------------------------------------------------------------
(* The IQR outlier rule of assess_accuracy, detect_anomalies, check_accuracy *)

MaxColLen == 5
MaxNumericCols == 9

IqrValues == {0, 1}

Missing == <<>>

Cells == {Missing} \cup {<<v>> : v \in IqrValues}

\* data = df[col].dropna(): the values of the cells that hold one, in order.
RECURSIVE dropna(_)
dropna(col) ==
    IF col = <<>> THEN <<>>
    ELSE (IF Head(col) = Missing THEN <<>> ELSE <<Head(col)[1]>>) \o dropna(Tail(col))

RECURSIVE Insert(_, _)
Insert(v, sorted) ==
    IF sorted = <<>> THEN <<v>>
    ELSE IF v <= Head(sorted) THEN <<v>> \o sorted
    ELSE <<Head(sorted)>> \o Insert(v, Tail(sorted))

RECURSIVE Sorted(_)
Sorted(values) == IF values = <<>> THEN <<>> ELSE Insert(Head(values), Sorted(Tail(values)))

\* Series.quantile(k/4) of the values (missing ones already skipped), times 4:
\* linear interpolation between the two order statistics around (n-1)*k/4.
quantile4(values, k) ==
    LET x == Sorted(values)
        lo == ((Len(x) - 1) * k) \div 4
        r == ((Len(x) - 1) * k) % 4
    IN IF r = 0 THEN 4 * x[lo + 1]
       ELSE 4 * x[lo + 1] + r * (x[lo + 2] - x[lo + 1])

\* lower_bound = Q1 - 1.5 * IQR and upper_bound = Q3 + 1.5 * IQR, times 8.
lower_bound8(values) ==
    2 * quantile4(values, 1) - 3 * (quantile4(values, 3) - quantile4(values, 1))

upper_bound8(values) ==
    2 * quantile4(values, 3) + 3 * (quantile4(values, 3) - quantile4(values, 1))

\* (df[col] < lower_bound) | (df[col] > upper_bound) on a column that still
\* holds its missing cells: a comparison with a missing cell is False.
RawOutliers(col) ==
    LET values == dropna(col)
    IN Cardinality({i \in 1..Len(col) :
          /\ col[i] # Missing
          /\ \/ 8 * col[i][1] < lower_bound8(values)
             \/ 8 * col[i][1] > upper_bound8(values)})

DroppedOutliersNonStrict(values) ==
    Cardinality({i \in 1..Len(values) :
          \/ 8 * values[i] <= lower_bound8(values)
          \/ 8 * values[i] >= upper_bound8(values)})

\* The same mask on data = df[col].dropna().
DroppedOutliers(values) ==
    Cardinality({i \in 1..Len(values) :
          \/ 8 * values[i] < lower_bound8(values)
          \/ 8 * values[i] > upper_bound8(values)})

\* assess_accuracy, one turn of its loop over numeric_cols.
AssessColumn(col) ==
    IF Len(dropna(col)) > 0 THEN RawOutliers(col) ELSE 0

RECURSIVE SumOver(_, _)
SumOver(counts, i) == IF i > Len(counts) THEN 0 ELSE counts[i] + SumOver(counts, i + 1)

\* DataQualityAssessment.assess_accuracy: outlier_count adds up every numeric column.
assess_accuracy ==
    /\ "assess_accuracy" \notin called
    /\ called' = called \cup {"assess_accuracy"}
    /\ accuracy' = SumOver([c \in 1..Len(df) |-> AssessColumn(df[c])], 1)
    /\ UNCHANGED <<df, anomalies, checked, mergeVars, scoreVars, corrVars, pipeVars, genVars>>

\* numeric_cols[:8]: detect_anomalies looks at the first eight numeric columns.
AnomalyColumnLimit == 8

AnomalyColumns(table) == {c \in 1..Len(table) : c <= AnomalyColumnLimit}

\* ExploratoryDataAnalysis.detect_anomalies: statistical_outliers gets an entry
\* for each examined column that has an outlier.
RECURSIVE StatisticalOutliers(_, _)
StatisticalOutliers(table, c) ==
    IF c > Len(table) THEN <<>>
    ELSE (IF /\ c \in AnomalyColumns(table)
             /\ Len(dropna(table[c])) > 0
             /\ DroppedOutliers(dropna(table[c])) > 0
             THEN <<[column |-> c, outlier_count |-> DroppedOutliers(dropna(table[c]))]>>
             ELSE <<>>) \o StatisticalOutliers(table, c + 1)

detect_anomalies ==
    /\ "detect_anomalies" \notin called
    /\ called' = called \cup {"detect_anomalies"}
    /\ anomalies' = StatisticalOutliers(df, 1)
    /\ UNCHANGED <<df, accuracy, checked, mergeVars, scoreVars, corrVars, pipeVars, genVars>>

\* DataQualityValidator.check_accuracy: columns_with_outliers maps every numeric
\* column that has a value to its count.
check_accuracy ==
    /\ "check_accuracy" \notin called
    /\ called' = called \cup {"check_accuracy"}
    /\ checked' = [c \in {c \in 1..Len(df) : Len(dropna(df[c])) > 0} |->
                      DroppedOutliers(dropna(df[c]))]
    /\ UNCHANGED <<df, accuracy, anomalies, mergeVars, scoreVars, corrVars, pipeVars, genVars>>

\* A column without outliers nor missing cells, standing for the other numeric
\* columns of the table.
FillerColumn == <<<<1>>, <<1>>>>

IqrIdle ==
    /\ df = <<>>
    /\ accuracy = 0
    /\ anomalies = <<>>
    /\ checked = EmptyMap

-----------------------------------------------------------------------------
(* The correlation scans of analyze_correlations and correlation_analysis *)

MaxBaseCols == 3
MaxCopies == 3

\* The columns tried, four rows each. With A = <<1,2,3,4>> the Pearson
\* coefficients are 0.6 (A, C), -0.6 (A, G), -0.8 (A, R), -1 (C, G), 0 (C, R and
\* G, R), 1 for a column with itself, and undefined with the constant column.
CorrColumns ==
    {<<1, 2, 3, 4>>, <<2, 1, 4, 3>>, <<3, 4, 1, 2>>, <<4, 2, 3, 1>>, <<1, 1, 1, 1>>}

RECURSIVE SumProducts(_, _, _)
SumProducts(x, y, i) == IF i > Len(x) THEN 0 ELSE x[i] * y[i] + SumProducts(x, y, i + 1)

RECURSIVE SumColumn(_, _)
SumColumn(x, i) == IF i > Len(x) THEN 0 ELSE x[i] + SumColumn(x, i + 1)

\* n times the co-moment of x and y: n*sum(x*y) - sum(x)*sum(y). DataFrame.corr
\* gives r = Co(x,y) / sqrt(Co(x,x) * Co(y,y)), and NaN when a column is constant.
Co(x, y) == Len(x) * SumProducts(x, y, 1) - SumColumn(x, 1) * SumColumn(y, 1)

Undefined(x, y) == Co(x, x) = 0 \/ Co(y, y) = 0

\* abs(corr_value) > t/100; False for NaN.
AbsAbove(x, y, t) ==
    /\ ~Undefined(x, y)
    /\ 10000 * Co(x, y) * Co(x, y) > t * t * Co(x, x) * Co(y, y)

\* abs(corr_value) <= t/100; False for NaN.
AbsAtMost(x, y, t) ==
    /\ ~Undefined(x, y)
    /\ 10000 * Co(x, y) * Co(x, y) <= t * t * Co(x, x) * Co(y, y)

\* corr_value > 0; False for NaN.
Positive(x, y) == ~Undefined(x, y) /\ Co(x, y) > 0

\* for i in range(n): for j in range(i+1, n): the pairs in scan order.
RECURSIVE ScanFrom(_, _, _)
ScanFrom(n, i, j) ==
    IF i > n THEN <<>>
    ELSE IF j > n THEN ScanFrom(n, i + 1, i + 2)
    ELSE <<<<i, j>>>> \o ScanFrom(n, i, j + 1)

ScanOrder(n) == ScanFrom(n, 1, 2)

StrongThreshold == 70
ModerateThreshold == 40
GeneratedThreshold == 50
TopLimit == 10

TopUnlimited(list) == list

Top(list) == SubSeq(list, 1, IF Len(list) < TopLimit THEN Len(list) ELSE TopLimit)

StrongLabel(t, p) ==
    IF Positive(t[p[1]], t[p[2]]) THEN "strong_positive" ELSE "strong_negative"

ModerateLabel(t, p) ==
    IF Positive(t[p[1]], t[p[2]]) THEN "moderate_positive" ELSE "moderate_negative"

\* The strong_corr list of analyze_correlations, before the cut to ten.
StrongCorr(t) ==
    LET hits == SelectSeq(ScanOrder(Len(t)),
                          LAMBDA p : AbsAbove(t[p[1]], t[p[2]], StrongThreshold))
    IN [k \in 1..Len(hits) |->
           [variable_1 |-> hits[k][1], variable_2 |-> hits[k][2],
            strength |-> StrongLabel(t, hits[k])]]

\* The moderate_corr list of analyze_correlations, before the cut to ten.
ModerateCorr(t) ==
    LET hits == SelectSeq(ScanOrder(Len(t)),
                          LAMBDA p : /\ AbsAbove(t[p[1]], t[p[2]], ModerateThreshold)
                                     /\ AbsAtMost(t[p[1]], t[p[2]], StrongThreshold))
    IN [k \in 1..Len(hits) |->
           [variable_1 |-> hits[k][1], variable_2 |-> hits[k][2],
            strength |-> ModerateLabel(t, hits[k])]]

\* ExploratoryDataAnalysis.analyze_correlations. (The rounded coefficient of an
\* entry and the correlation_matrix excerpt are left out: nothing reads them.)
analyze_correlations ==
    /\ "analyze_correlations" \notin called
    /\ called' = called \cup {"analyze_correlations"}
    /\ correlations' =
          IF Len(numeric_df) > 1
             THEN [strong_correlations |-> Top(StrongCorr(numeric_df)),
                   moderate_correlations |-> Top(ModerateCorr(numeric_df))]
             ELSE [strong_correlations |-> <<>>, moderate_correlations |-> <<>>]
    /\ UNCHANGED <<numeric_df, strong_corrs, mergeVars, scoreVars, iqrVars, pipeVars, genVars>>

\* The strong_corrs list of correlation_analysis.
GeneratedStrongCorrs(t) ==
    LET hits == SelectSeq(ScanOrder(Len(t)),
                          LAMBDA p : AbsAbove(t[p[1]], t[p[2]], GeneratedThreshold))
    IN [k \in 1..Len(hits) |-> [var1 |-> hits[k][1], var2 |-> hits[k][2]]]

\* EcommerceAnalyzer.correlation_analysis(df, cols), cols naming every numeric
\* column of df; with fewer than two columns it returns {}.
correlation_analysis ==
    /\ "correlation_analysis" \notin called
    /\ called' = called \cup {"correlation_analysis"}
    /\ strong_corrs' =
          IF Len(numeric_df) < 2 THEN <<>> ELSE GeneratedStrongCorrs(numeric_df)
    /\ UNCHANGED <<numeric_df, correlations, mergeVars, scoreVars, iqrVars, pipeVars, genVars>>

CorrIdle ==
    /\ numeric_df = <<>>
    /\ correlations = [strong_correlations |-> <<>>, moderate_correlations |-> <<>>]
    /\ strong_corrs = <<>>

-----------------------------------------------------------------------------
(* Joins: pd.merge as the three call sites use it *)

MaxIds == 2
MaxRows == 2

OrderIds == 1..MaxIds
CustomerIds == 1..MaxIds

OrdersRows == [order_id : OrderIds, customer_id : CustomerIds]
CustomersRows == [customer_id : CustomerIds, customer_state : {"SP"}]
OrderItemsRows == [order_id : OrderIds, price : {10}]

\* The rows of `right`, from index j on, whose key equals that of the left row l.
RECURSIVE MatchRows(_, _, _, _)
MatchRows(l, right, key, j) ==
    IF j > Len(right) THEN <<>>
    ELSE (IF right[j][key] = l[key]
             THEN <<[left |-> l, right |-> right[j]]>>
             ELSE <<>>) \o MatchRows(l, right, key, j + 1)

RECURSIVE MergeFrom(_, _, _, _, _)
MergeFrom(left, right, key, how, i) ==
    IF i > Len(left) THEN <<>>
    ELSE LET m == MatchRows(left[i], right, key, 1)
             rows == IF m = <<>> /\ how = "left"
                        THEN <<[left |-> left[i], right |-> NaN]>>
                        ELSE m
         IN rows \o MergeFrom(left, right, key, how, i + 1)

\* pd.merge(left, right, on=key, how=how): a merged row keeps the left row and
\* the matching right row; a left join fills an unmatched right side with NaN.
pd_merge(left, right, key, how) == MergeFrom(left, right, key, how, 1)

Loaded(name) == tables[name].loaded

Rows(name) == tables[name].rows

\* DataPreprocessor.merge_datasets: the clean_* steps add derived columns and
\* leave the key columns as loaded, so the cleaned tables join as the loaded ones.
merge_datasets ==
    /\ "merge_datasets" \notin called
    /\ called' = called \cup {"merge_datasets"}
    /\ data' =
         [n \in (IF Loaded("Orders") /\ Loaded("Order Items")
                    THEN {"Orders_Items_merged"} ELSE {})
                \cup (IF Loaded("Orders") /\ Loaded("Customers")
                         THEN {"Orders_Customers_merged"} ELSE {}) |->
            IF n = "Orders_Items_merged"
               THEN pd_merge(Rows("Orders"), Rows("Order Items"), "order_id", "inner")
               ELSE pd_merge(Rows("Orders"), Rows("Customers"), "customer_id", "left")]
    /\ UNCHANGED <<tables, cross, behavior, scoreVars, iqrVars, corrVars, pipeVars, genVars>>

\* ExploratoryDataAnalysis.cross_dataset_analysis: orders x items, then
\* customers x orders.
cross_dataset_analysis ==
    /\ "cross_dataset_analysis" \notin called
    /\ called' = called \cup {"cross_dataset_analysis"}
    /\ cross' =
         [n \in (IF Loaded("Orders") /\ Loaded("Order Items")
                    THEN {"orders_items"} ELSE {})
                \cup (IF Loaded("Customers") /\ Loaded("Orders")
                         THEN {"customers_orders"} ELSE {}) |->
            IF n = "orders_items"
               THEN pd_merge(Rows("Orders"), Rows("Order Items"), "order_id", "inner")
               ELSE pd_merge(Rows("Customers"), Rows("Orders"), "customer_id", "inner")]
    /\ UNCHANGED <<tables, data, behavior, scoreVars, iqrVars, corrVars, pipeVars, genVars>>

\* EcommerceAnalyzer.analyze_customer_behavior(orders_df, customers_df), called
\* by the pipeline when both tables are loaded.
analyze_customer_behavior ==
    /\ "analyze_customer_behavior" \notin called
    /\ Loaded("Orders") /\ Loaded("Customers")
    /\ called' = called \cup {"analyze_customer_behavior"}
    /\ behavior' = pd_merge(Rows("Orders"), Rows("Customers"), "customer_id", "left")
    /\ UNCHANGED <<tables, data, cross, scoreVars, iqrVars, corrVars, pipeVars, genVars>>

RowsOf(name) ==
    CASE name = "Orders" -> OrdersRows
      [] name = "Customers" -> CustomersRows
      [] OTHER -> OrderItemsRows

\* A CSV that failed to load leaves no table; a loaded one has up to MaxRows rows.
TableChoices(name) ==
    {[loaded |-> FALSE, rows |-> <<>>]} \cup
    {[loaded |-> TRUE, rows |-> r] : r \in SeqsUpTo(RowsOf(name), MaxRows)}

MergeIdle ==
    /\ tables = [n \in {"Orders", "Customers", "Order Items"} |-> [loaded |-> FALSE, rows |-> <<>>]]
    /\ data = EmptyMap
    /\ cross = EmptyMap
    /\ behavior = <<>>

-----------------------------------------------------------------------------
(* The six stage scripts and the files they read and write. A stage is run *)
(* as its __main__ block runs it, with its default directories, from start *)
(* to end; stages run in any order and any number of times. A path is      *)
(* <<directory, file name>>. Calendar timestamps the stages print into     *)
(* their reports are left out of a file's content.                         *)

MaxFaults == 1

DataDir == "data_storage/"
QualityDir == "complete_analysis/data_quality_report/"
EdaDir == "complete_analysis/exploratory_analysis/"
HypothesisDirMisplaced == "complete_analysis/exploratory_analysis/"
HypothesisDir == "complete_analysis/hypothesis_reports/"
VisualizationDir == "complete_analysis/visualizations/"
GeneratedCodeDir == "complete_analysis/generated_code/"
OutputDir == "complete_analysis/"
ReportDir == "complete_analysis/final_report/"

\* The stages in workflow order.
Stages ==
    <<"DataQualityAssessment", "ExploratoryDataAnalysis", "HypothesisGenerator",
      "DataVisualization", "AnalysisCodeGenerator", "ReportGenerator">>

StageNames == {Stages[i] : i \in 1..Len(Stages)}

StageNumber(s) == CHOOSE i \in 1..Len(Stages) : Stages[i] = s

\* The CSV files the stages know by name.
CsvNames ==
    {"Orders.csv", "Order Items.csv", "Customers.csv", "Products.csv", "Sellers.csv",
     "Order Payments.csv", "Reviews.csv", "Categories.csv"}

\* What a file holds: the top level of a JSON document (a mapping with its
\* keys, or a list), and what the rest was made from.
JsonMapping(keys, from) == [kind |-> "mapping", keys |-> keys, body |-> from]

JsonList(from) == [kind |-> "list", keys |-> {}, body |-> from]

Other(kind, from) == [kind |-> kind, keys |-> {}, body |-> from]

NoFiles == [p \in {} |-> Other("text", {})]

\* open(path, 'w') ... write, savefig, to_csv: the stage's files replace what
\* was at their paths.
WriteAll(fs, stage, entries) ==
    [p \in DOMAIN fs \cup DOMAIN entries |->
        IF p \in DOMAIN entries THEN [writer |-> stage, content |-> entries[p]] ELSE fs[p]]

\* A loader with the try/except around pd.read_csv taken away.
load_datasets_uncaught ==
    [raised |-> ~data_dir_exists \/ \E f \in CsvNames : data_storage[f] = "unreadable",
     datasets |-> {f \in CsvNames : data_storage[f] = "readable"},
     read |-> {<<DataDir, f>> : f \in {g \in CsvNames : data_storage[g] # "absent"}}]

\* A loader whose loop ends at the first pd.read_csv that fails, taken here
\* to be the first file of the directory listing.
load_datasets_stopping ==
    [raised |-> ~data_dir_exists,
     datasets |-> IF \E f \in CsvNames : data_storage[f] = "unreadable" THEN {}
                  ELSE {f \in CsvNames : data_storage[f] = "readable"},
     read |-> {<<DataDir, f>> : f \in {g \in CsvNames : data_storage[g] # "absent"}}]

\* load_datasets / load_data / load_data_and_results, the CSV part: os.listdir
\* raises when data_dir is missing; a pd.read_csv that fails is caught and the
\* file left out.
load_datasets ==
    [raised |-> ~data_dir_exists,
     datasets |-> {f \in CsvNames : data_storage[f] = "readable"},
     read |-> {<<DataDir, f>> : f \in {g \in CsvNames : data_storage[g] # "absent"}}]

\* One run of a stage: what it read, and either the exception that ended it
\* or the files it saved.
StageRun(s, raised, datasets, readPaths, entries) ==
    /\ reads' = reads \cup {<<s, p>> : p \in readPaths}
    /\ status' = [status EXCEPT ![s] = IF raised THEN "raised" ELSE "complete"]
    /\ loaded' = [loaded EXCEPT ![s] = IF raised THEN {} ELSE datasets]
    /\ files' = IF raised THEN files ELSE WriteAll(files, s, entries)
    /\ writes' = IF raised THEN writes ELSE writes \cup {<<s, p>> : p \in DOMAIN entries}
    /\ UNCHANGED <<data_dir_exists, data_storage>>
    /\ UNCHANGED <<mergeVars, scoreVars, iqrVars, corrVars, genVars, called>>

\* Stage 1: run_assessment, save_results.
QualityFiles(datasets) ==
    (<<QualityDir, "quality_assessment.json">> :> JsonMapping(datasets, datasets))
    @@ (<<QualityDir, "data_issues.log">> :> Other("text", datasets))
    @@ (<<QualityDir, "quality_improvement_recommendations.md">> :> Other("text", datasets))

run_assessment ==
    LET l == load_datasets
    IN StageRun("DataQualityAssessment", l.raised, l.datasets, l.read,
                QualityFiles(l.datasets))

\* Stage 2: run_analysis, save_results.
ExploratoryKeysDatasetsOnly(datasets) == datasets

ExploratoryKeys(datasets) == datasets \cup {"_cross_dataset_analysis"}

EdaResultsPathOfLaterStage == <<VisualizationDir, "visualization_index.json">>

EdaResultsPath == <<EdaDir, "exploratory_analysis_results.json">>

ExploratoryFiles(datasets) ==
    (<<EdaDir, "exploratory_analysis_results.json">>
        :> JsonMapping(ExploratoryKeys(datasets), datasets))
    @@ (<<EdaDir, "statistical_summary.csv">> :> Other("csv", datasets))
    @@ (<<EdaDir, "pattern_analysis.md">> :> Other("text", datasets))

run_analysis ==
    LET l == load_datasets
    IN StageRun("ExploratoryDataAnalysis", l.raised, l.datasets, l.read,
                ExploratoryFiles(l.datasets))

\* Stage 3: run_hypothesis_generation, save_results. load_data reads the
\* exploratory results when they exist and keeps them in self.eda_results.
\* Each hypothesis is generated when the datasets it is computed from have
\* loaded (with the columns of their schema and at least one value in them).
HypothesisCategory ==
    [HYP_001 |-> "Correlation Analysis", HYP_002 |-> "Product Analysis",
     HYP_003 |-> "Temporal Analysis", HYP_004 |-> "Temporal Analysis",
     HYP_005 |-> "Logistics Analysis", HYP_006 |-> "Customer Analysis",
     HYP_007 |-> "Customer Behavior", HYP_008 |-> "Product Analysis",
     HYP_009 |-> "Product Analysis", HYP_010 |-> "Customer Satisfaction",
     HYP_011 |-> "Customer Feedback", HYP_012 |-> "Payment Analysis",
     HYP_013 |-> "Payment Analysis", HYP_014 |-> "Seller Analysis"]

HypothesisDatasets ==
    [HYP_001 |-> {"Orders.csv", "Order Items.csv"}, HYP_002 |-> {"Products.csv"},
     HYP_003 |-> {"Orders.csv"}, HYP_004 |-> {"Orders.csv"},
     HYP_005 |-> {"Orders.csv"}, HYP_006 |-> {"Customers.csv"},
     HYP_007 |-> {"Orders.csv"}, HYP_008 |-> {"Products.csv", "Categories.csv"},
     HYP_009 |-> {"Order Items.csv"}, HYP_010 |-> {"Reviews.csv"},
     HYP_011 |-> {"Reviews.csv"}, HYP_012 |-> {"Order Payments.csv"},
     HYP_013 |-> {"Order Payments.csv"}, HYP_014 |-> {"Sellers.csv", "Order Items.csv"}]

\* self.eda_results when there is no exploratory results file.
NoEdaResults == JsonMapping({}, {})

\* The seven generate_*_hypotheses functions: they look at self.datasets
\* and never at self.eda_results.
Hypotheses(datasets, eda_results) ==
    {h \in DOMAIN HypothesisDatasets : HypothesisDatasets[h] \subseteq datasets}

HypothesisFiles(datasets, eda_results) ==
    (<<HypothesisDir, "research_hypotheses.json">>
        :> JsonList(Hypotheses(datasets, eda_results)))
    @@ (<<HypothesisDir, "research_hypotheses.md">>
           :> Other("text", Hypotheses(datasets, eda_results)))
    @@ (<<HypothesisDir, "experimental_design.md">>
           :> Other("text", Hypotheses(datasets, eda_results)))

run_hypothesis_generation ==
    LET l == load_datasets
        eda == IF ~l.raised /\ EdaResultsPath \in DOMAIN files THEN {EdaResultsPath} ELSE {}
        eda_results == IF EdaResultsPath \in DOMAIN files
                       THEN files[EdaResultsPath].content ELSE NoEdaResults
    IN StageRun("HypothesisGenerator", l.raised, l.datasets, l.read \cup eda,
                HypothesisFiles(l.datasets, eda_results))

\* Stage 4: run_visualization_creation, save_visualization_index. Each chart
\* is drawn from one dataset, when that dataset loaded.
ChartSource ==
    [Orders |-> {"daily_orders_trend.png", "monthly_orders_distribution.png",
                 "order_activity_heatmap.png"},
     OrderItems |-> {"price_distribution.png", "price_vs_freight.png"},
     Reviews |-> {"review_score_distribution.png"},
     Customers |-> {"customer_state_distribution.png"},
     Sellers |-> {"seller_state_distribution.png"},
     OrderPayments |-> {"payment_type_distribution.png",
                        "payment_installments_distribution.png",
                        "payment_value_distribution.png"},
     Products |-> {"product_category_distribution.png", "product_weight_distribution.png"}]

ChartsFor(datasets) ==
    (IF "Orders.csv" \in datasets THEN ChartSource.Orders ELSE {})
    \cup (IF "Order Items.csv" \in datasets THEN ChartSource.OrderItems ELSE {})
    \cup (IF "Reviews.csv" \in datasets THEN ChartSource.Reviews ELSE {})
    \cup (IF "Customers.csv" \in datasets THEN ChartSource.Customers ELSE {})
    \cup (IF "Sellers.csv" \in datasets THEN ChartSource.Sellers ELSE {})
    \cup (IF "Order Payments.csv" \in datasets THEN ChartSource.OrderPayments ELSE {})
    \cup (IF "Products.csv" \in datasets THEN ChartSource.Products ELSE {})

\* The charts create_interactive_dashboard_html looks for in its own directory.
DashboardCharts ==
    ChartSource.Orders \cup ChartSource.OrderItems \cup ChartSource.Reviews
    \cup ChartSource.Customers \cup ChartSource.Sellers \cup ChartSource.OrderPayments
    \cup ChartSource.Products

\* The charts the dashboard finds: those just drawn and those an earlier run left.
ChartsFound(datasets) ==
    {c \in DashboardCharts :
        c \in ChartsFor(datasets) \/ <<VisualizationDir, c>> \in DOMAIN files}

VisualizationFiles(datasets) ==
    [p \in {<<VisualizationDir, c>> : c \in ChartsFor(datasets)} |-> Other("png", {p[2]})]
    @@ (<<VisualizationDir, "interactive_dashboard.html">>
           :> Other("html", datasets \cup ChartsFound(datasets)))
    @@ (<<VisualizationDir, "visualization_index.json">>
           :> JsonMapping({"total_visualizations", "charts"}, ChartsFor(datasets)))

run_visualization_creation ==
    LET l == load_datasets
        found == IF l.raised THEN {}
                 ELSE {<<VisualizationDir, c>> : c \in ChartsFound(l.datasets)}
    IN StageRun("DataVisualization", l.raised, l.datasets, l.read \cup found,
                VisualizationFiles(l.datasets))

\* Stage 5: run_code_generation. Each file is a string literal of the
\* generator, written as it stands; nothing is read.
GeneratedNames ==
    {"data_preprocessing.py", "quality_checks.py", "analysis_functions.py",
     "complete_analysis_pipeline.py", "test_analysis.py", "README.md", "requirements.txt"}

TemplateFilledFromData(name) ==
    Other("text", {name} \cup {f \in CsvNames : data_storage[f] = "readable"})

Template(name) == Other("text", {name})

GeneratedFiles == [p \in {<<GeneratedCodeDir, n>> : n \in GeneratedNames} |-> Template(p[2])]

run_code_generation ==
    StageRun("AnalysisCodeGenerator", FALSE, {}, {}, GeneratedFiles)

\* Stage 6: run_report_generation. load_data_and_results reads the JSON
\* results of stages 1 to 4 that exist.
ResultPaths ==
    {<<QualityDir, "quality_assessment.json">>,
     <<EdaDir, "exploratory_analysis_results.json">>,
     <<HypothesisDir, "research_hypotheses.json">>,
     <<VisualizationDir, "visualization_index.json">>}

\* What the two reports and the workflow log say of stages 3 and 4, in words
\* and figures of the templates.
StatedHypotheses == 14
StatedCategories == 10
StatedVisualizations == 13

\* create_workflow_log: the stages its text marks as completed, and the file
\* it lists for each under 'Files Generated'.
WorkflowLogStages == StageNames

WorkflowLogFiles ==
    [DataQualityAssessment |-> <<QualityDir, "quality_assessment.json">>,
     ExploratoryDataAnalysis |-> <<EdaDir, "exploratory_analysis_results.json">>,
     HypothesisGenerator |-> <<HypothesisDir, "research_hypotheses.json">>,
     DataVisualization |-> <<VisualizationDir, "interactive_dashboard.html">>,
     AnalysisCodeGenerator |-> <<GeneratedCodeDir, "complete_analysis_pipeline.py">>,
     ReportGenerator |-> <<ReportDir, "comprehensive_analysis_report.html">>]

\* The reports are templates; the log's only computed figure is the number
\* of datasets.
ReportFiles(datasets, results) ==
    LET from == datasets \cup {p[2] : p \in results}
    IN (<<ReportDir, "comprehensive_analysis_report.html">> :> Other("html", from))
       @@ (<<ReportDir, "comprehensive_analysis_report.md">> :> Other("text", from))
       @@ (<<OutputDir, "workflow_log.md">> :> Other("text", datasets))

run_report_generation ==
    LET l == load_datasets
        results == IF l.raised THEN {} ELSE ResultPaths \cap DOMAIN files
    IN StageRun("ReportGenerator", l.raised, l.datasets, l.read \cup results,
                ReportFiles(l.datasets, results))

PipelineIdle ==
    /\ data_dir_exists = TRUE
    /\ data_storage = [f \in CsvNames |-> "absent"]
    /\ files = NoFiles
    /\ reads = {}
    /\ writes = {}
    /\ status = [s \in StageNames |-> "not run"]
    /\ loaded = [s \in StageNames |-> {}]

-----------------------------------------------------------------------------
(* generated_code/complete_analysis_pipeline.py: CompleteAnalysisPipeline.  *)
(* run() is followed through its five printed stages, one action each, and *)
(* export_results() is called after run() returned, as __main__ calls it.  *)
(* A table is known by what matters to the run: whether its CSV loaded,    *)
(* whether it has rows, and for Orders whether any purchase timestamp      *)
(* parses, for Order Items whether any order_id is one of Orders. Every    *)
(* table that loads has the columns of its schema. A value of results is   *)
(* known by its Python type and, for a dict or list, by its items.         *)

\* load_all_data: the names the eight CSV files are stored under, in load order.
RawNames ==
    <<"Orders", "Customers", "Order Items", "Order Payments", "Products",
      "Reviews", "Sellers", "Categories">>

\* The raw table each clean_* function copies, in the order run() calls them.
CleanNames ==
    <<"Orders_clean", "Customers_clean", "Order_Items_clean", "Payments_clean",
      "Reviews_clean">>

CleanSource ==
    [Orders_clean |-> "Orders", Customers_clean |-> "Customers",
     Order_Items_clean |-> "Order Items", Payments_clean |-> "Order Payments",
     Reviews_clean |-> "Reviews"]

MergedNames == <<"Orders_Items_merged", "Orders_Customers_merged">>

\* The keys of DataPreprocessor.data in insertion order, if every table is there.
DataOrder == RawNames \o CleanNames \o MergedNames

Range(s) == {s[i] : i \in 1..Len(s)}

\* What a CSV of data_dir can hold. "absent": pd.read_csv raised; "empty":
\* a header and no rows; "undated" (Orders): rows, no purchase timestamp
\* parses; "unmatched" (Order Items): rows, no order_id of Orders; "rows".
RawStates(name) ==
    CASE name = "Orders" -> {"absent", "empty", "undated", "rows"}
      [] name = "Order Items" -> {"absent", "empty", "unmatched", "rows"}
      [] name \in {"Customers", "Order Payments", "Reviews"} -> {"absent", "empty", "rows"}
      [] OTHER -> {"absent", "rows"}

\* The keys of DataPreprocessor.data after load_all_data, the five clean_*
\* calls and merge_datasets.
PreprocessedKeys(csv) ==
    LET loaded_raw == {n \in Range(RawNames) : csv[n] # "absent"}
        cleaned == {c \in Range(CleanNames) : CleanSource[c] \in loaded_raw}
        merged == (IF {"Orders_clean", "Order_Items_clean"} \subseteq cleaned
                   THEN {"Orders_Items_merged"} ELSE {})
                  \cup
                  (IF {"Orders_clean", "Customers_clean"} \subseteq cleaned
                   THEN {"Orders_Customers_merged"} ELSE {})
    IN loaded_raw \cup cleaned \cup merged

\* len(df) = 0 for the table stored under a key. No clean_* function drops a
\* row; the inner join on order_id is empty if either side is or no item
\* matches an order; the left join on customer_id keeps every order.
NoRows(csv, name) ==
    CASE name \in Range(RawNames) -> csv[name] = "empty"
      [] name \in Range(CleanNames) -> csv[CleanSource[name]] = "empty"
      [] name = "Orders_Items_merged" ->
            csv["Orders"] = "empty" \/ csv["Order Items"] \in {"empty", "unmatched"}
      [] name = "Orders_Customers_merged" -> csv["Orders"] = "empty"

\* The keys of data that contain the word, as Python's `word in name` finds.
NamesContaining(word) ==
    CASE word = "Orders" ->
            {"Orders", "Orders_clean", "Orders_Items_merged", "Orders_Customers_merged"}
      [] word = "Customers" ->
            {"Customers", "Customers_clean", "Orders_Customers_merged"}

\* The condition of the validation loop of run().
SelectedForValidation(name) ==
    name \in NamesContaining("Orders") \/ name \in NamesContaining("Customers")

\* The names the validation loop hands to validate_dataset, in order.
ValidationOrder(keys) ==
    SelectSeq(DataOrder, LAMBDA n : n \in keys /\ SelectedForValidation(n))

\* validate_dataset divides duplicate_rows by len(df): ZeroDivisionError on
\* a table without rows. The index of the first such table, 0 if none.
FirstFailure(csv, order) ==
    LET failing == {i \in 1..Len(order) : NoRows(csv, order[i])}
    IN IF failing = {} THEN 0 ELSE CHOOSE i \in failing : \A j \in failing : i <= j

\* ---- the values of results, by Python type
Scalar(t) == [type |-> t, items |-> {}]

Key(t, name) == [type |-> t, name |-> name]

Entry(name, v) == <<Key("str", name), v>>

Dict(items) == [type |-> "dict", items |-> items]

List(values) == [type |-> "list", items |-> {<<Key("index", "item"), v>> : v \in values}]

\* calculate_order_metrics: len() and nunique() are ints, their quotient a float.
OrderMetricsValue ==
    Dict({Entry("total_orders", Scalar("int")), Entry("unique_days", Scalar("int")),
          Entry("avg_orders_per_day", Scalar("float")),
          Entry("unique_customers", Scalar("int"))})

\* temporal_analysis: three Series.to_dict() of group sizes; the hour and
\* the day of week are numbers, the month is a pandas Period.
TemporalValue(dated) ==
    LET sizes(keytype, label) ==
            Dict(IF dated THEN {<<Key(keytype, label), Scalar("int")>>} ELSE {})
    IN Dict({Entry("hourly_distribution", sizes("int", "hour")),
             Entry("daily_distribution", sizes("int", "day_of_week")),
             Entry("monthly_trend", sizes("Period", "month"))})

\* analyze_customer_behavior: a mean and a ratio of numpy numbers, and
\* value_counts().head(5).to_dict().
CustomerBehaviorValue ==
    Dict({Entry("avg_orders_per_customer", Scalar("numpy.float64")),
          Entry("repeat_customer_rate", Scalar("numpy.float64")),
          Entry("top_states", Dict({<<Key("str", "state"), Scalar("int")>>}))})

\* analyze_product_performance: DataFrame.to_dict() is column -> index -> value.
ProductPerformanceValue(has_rows) ==
    LET column(t) == Dict(IF has_rows THEN {<<Key("str", "product_id"), Scalar(t)>>} ELSE {})
    IN Dict({Entry("top_products",
                   Dict({Entry("order_count", column("int")),
                         Entry("total_revenue", column("float"))})),
             Entry("avg_product_price", Scalar("numpy.float64")),
             Entry("median_product_price", Scalar("numpy.float64"))})

\* calculate_satisfaction_metrics.
SatisfactionValue ==
    Dict({Entry("avg_review_score", Scalar("numpy.float64")),
          Entry("median_review_score", Scalar("numpy.float64")),
          Entry("positive_review_rate", Scalar("numpy.float64"))})

\* payment_analysis.
PaymentValue(has_rows) ==
    Dict({Entry("payment_type_distribution",
                Dict(IF has_rows THEN {<<Key("str", "payment_type"), Scalar("float")>>} ELSE {})),
          Entry("avg_installments", Scalar("numpy.float64")),
          Entry("installment_rate", Scalar("numpy.float64")),
          Entry("avg_payment_value", Scalar("numpy.float64")),
          Entry("total_payment_value", Scalar("numpy.float64"))})

NoResults == <<>>

\* d with key k set to v, as `d[k] = v` does.
Put(d, k, v) == [x \in DOMAIN d \cup {k} |-> IF x = k THEN v ELSE d[x]]

\* Stage 1 of run(): load_all_data, the clean_* calls, merge_datasets.
run_load_and_clean ==
    /\ run_pc = "start"
    /\ data_keys' = PreprocessedKeys(raw)
    /\ run_pc' = "loaded"
    /\ called' = called \cup {"run_load_and_clean"}
    /\ UNCHANGED <<raw, validated, analyzed, run_results, exported>>
    /\ UNCHANGED <<mergeVars, scoreVars, iqrVars, corrVars, pipeVars, validatorVars, analyzerVars, assessVars, accuracyVars>>

\* Stage 2 of run(): the validation loop. It ends at the first table
\* validate_dataset raises on, and run() with it.
run_validate ==
    /\ run_pc = "loaded"
    /\ LET order == ValidationOrder(data_keys)
           stop == FirstFailure(raw, order)
       IN /\ validated' = IF stop = 0 THEN Range(order)
                          ELSE {order[i] : i \in 1..stop}
          /\ run_pc' = IF stop = 0 THEN "validated" ELSE "raised"
    /\ called' = called \cup {"run_validate"}
    /\ UNCHANGED <<raw, data_keys, analyzed, run_results, exported>>
    /\ UNCHANGED <<mergeVars, scoreVars, iqrVars, corrVars, pipeVars, validatorVars, analyzerVars, assessVars, accuracyVars>>

\* Stage 3 of run(): the analyzer calls. calculate_order_metrics divides
\* total_orders by the number of distinct purchase dates: ZeroDivisionError
\* when no timestamp of Orders_clean parses, before any result is stored.
run_analyze ==
    /\ run_pc = "validated"
    /\ LET has(n) == n \in data_keys
           undated == has("Orders_clean") /\ raw["Orders"] = "undated"
           r1 == IF has("Orders_clean")
                 THEN Put(Put(NoResults, "order_metrics", OrderMetricsValue),
                          "temporal_patterns", TemporalValue(raw["Orders"] = "rows"))
                 ELSE NoResults
           r2 == IF has("Orders_clean") /\ has("Customers_clean")
                 THEN Put(r1, "customer_behavior", CustomerBehaviorValue) ELSE r1
           r3 == IF has("Order_Items_clean")
                 THEN Put(r2, "product_performance",
                          ProductPerformanceValue(~NoRows(raw, "Order_Items_clean")))
                 ELSE r2
           r4 == IF has("Reviews_clean")
                 THEN Put(r3, "satisfaction", SatisfactionValue) ELSE r3
           r5 == IF has("Payments_clean")
                 THEN Put(r4, "payment_patterns",
                          PaymentValue(~NoRows(raw, "Payments_clean")))
                 ELSE r4
       IN IF undated
          THEN /\ analyzed' = {"Orders_clean"}
               /\ run_results' = NoResults
               /\ run_pc' = "raised"
          ELSE /\ analyzed' =
                     (IF has("Orders_clean") THEN {"Orders_clean"} ELSE {})
                     \cup (IF has("Orders_clean") /\ has("Customers_clean")
                           THEN {"Orders_clean", "Customers_clean"} ELSE {})
                     \cup ({"Order_Items_clean", "Reviews_clean", "Payments_clean"}
                           \cap data_keys)
               /\ run_results' = r5
               /\ run_pc' = "analyzed"
    /\ called' = called \cup {"run_analyze"}
    /\ UNCHANGED <<raw, data_keys, validated, exported>>
    /\ UNCHANGED <<mergeVars, scoreVars, iqrVars, corrVars, pipeVars, validatorVars, analyzerVars, assessVars, accuracyVars>>

\* generate_insights: results['insights'] is a list of formatted strings.
InsightsValue(r) ==
    List(IF {"order_metrics", "satisfaction", "customer_behavior"} \cap DOMAIN r = {}
         THEN {} ELSE {Scalar("str")})

\* Stages 4 and 5 of run(): generate_insights, then create_summary_report,
\* which prints the results and changes nothing; run() returns.
run_insights_and_report ==
    /\ run_pc = "analyzed"
    /\ run_results' = Put(run_results, "insights", InsightsValue(run_results))
    /\ run_pc' = "returned"
    /\ called' = called \cup {"run_insights_and_report"}
    /\ UNCHANGED <<raw, data_keys, validated, analyzed, exported>>
    /\ UNCHANGED <<mergeVars, scoreVars, iqrVars, corrVars, pipeVars, validatorVars, analyzerVars, assessVars, accuracyVars>>

\* isinstance(v, (int, float, str, list, dict)): numpy.float64 is a subclass
\* of float, numpy.int64 and Period are subclasses of none of the five.
IsInstanceOfKept(v) == v.type \in {"int", "float", "str", "list", "dict", "numpy.float64"}

\* The conversion step of export_results for one value of results.
Convert(value) ==
    IF value.type = "dict"
    THEN Dict({<<item[1], IF IsInstanceOfKept(item[2]) THEN item[2] ELSE Scalar("str")>> :
               item \in value.items})
    ELSE Scalar("str")

\* What json.dump writes without raising TypeError: str, int, float (and
\* its subclasses), bool, None, and lists and dicts of those whose keys are
\* str, int, float, bool or None.
RECURSIVE JsonSerializable(_)
JsonSerializable(v) ==
    CASE v.type \in {"str", "int", "float", "numpy.float64", "bool", "NoneType"} -> TRUE
      [] v.type = "list" -> \A item \in v.items : JsonSerializable(item[2])
      [] v.type = "dict" ->
            \A item \in v.items :
                /\ item[1].type \in {"str", "int", "float", "bool", "NoneType"}
                /\ JsonSerializable(item[2])
      [] OTHER -> FALSE

\* export_results, called once run() has returned.
export_results ==
    /\ run_pc = "returned"
    /\ exported.status = "not run"
    /\ LET serializable_results ==
               Dict({Entry(key, Convert(run_results[key])) : key \in DOMAIN run_results})
       IN exported' = [status |-> IF JsonSerializable(serializable_results)
                                  THEN "written" ELSE "raised",
                       serializable_results |-> serializable_results]
    /\ called' = called \cup {"export_results"}
    /\ UNCHANGED <<raw, data_keys, validated, analyzed, run_results, run_pc>>
    /\ UNCHANGED <<mergeVars, scoreVars, iqrVars, corrVars, pipeVars, validatorVars, analyzerVars, assessVars, accuracyVars>>

RunIdle ==
    /\ raw = [n \in Range(RawNames) |-> "absent"]
    /\ data_keys = {}
    /\ validated = {}
    /\ analyzed = {}
    /\ run_results = NoResults
    /\ run_pc = "start"
    /\ exported = [status |-> "not run", serializable_results |-> Dict({})]

-----------------------------------------------------------------------------
(* generated_code/quality_checks.py: DataQualityValidator.check_completeness *)
(* and check_consistency on one table. The table has the two columns of     *)
(* test_consistency_check, "id" and "value". A float is kept as the exact   *)
(* fraction [num, den] of the division that made it.                        *)

MaxFrameRows == 3

FrameColumns == {"id", "value"}

FrameValues == {1, 2}

FrameRows == [FrameColumns -> {Missing} \cup {<<v>> : v \in FrameValues}]

Fraction(n, d) == [num |-> n, den |-> d]

\* total_cells = df.shape[0] * df.shape[1]
total_cells(table) == Len(table) * Cardinality(FrameColumns)

\* df.isnull().sum(): column -> the number of its cells that are missing.
isnull_sum(table) ==
    [c \in FrameColumns |-> Cardinality({i \in 1..Len(table) : table[i][c] = Missing})]

RECURSIVE SumOf(_, _)
SumOf(f, keys) ==
    IF keys = {} THEN 0
    ELSE LET k == CHOOSE x \in keys : TRUE IN f[k] + SumOf(f, keys \ {k})

\* The rows that have a missing cell.
missing_rows(table) ==
    Cardinality({i \in 1..Len(table) : \E c \in FrameColumns : table[i][c] = Missing})

\* missing_cells = df.isnull().sum().sum()
missing_cells(table) == SumOf(isnull_sum(table), FrameColumns)

\* numpy's division by zero is nan, not an exception.
Divide(n, d) == IF d = 0 THEN NaN ELSE Fraction(n, d)

\* (1 - missing_cells / total_cells) * 100
completeness_score(table) ==
    Divide((total_cells(table) - missing_cells(table)) * 100, total_cells(table))

\* The dictionary check_completeness returns.
check_completeness_result(table) ==
    [completeness_score |-> completeness_score(table),
     missing_pct |-> Divide(missing_cells(table) * 100, total_cells(table)),
     columns_with_missing |-> isnull_sum(table)]

check_completeness ==
    /\ "check_completeness" \notin called
    /\ completeness' = check_completeness_result(frame)
    /\ called' = called \cup {"check_completeness"}
    /\ UNCHANGED <<frame, consistency, validation>>
    /\ UNCHANGED <<mergeVars, scoreVars, iqrVars, corrVars, pipeVars, runVars, analyzerVars, assessVars, accuracyVars>>

\* DataFrame.duplicated() over the given columns: the rows that repeat an
\* earlier row in each of them; missing equals missing.
Duplicated(table, columns) ==
    {i \in 1..Len(table) : \E j \in 1..(i - 1) : \A c \in columns : table[j][c] = table[i][c]}

\* The columns whose lower-cased name contains 'id'.
id_cols == {"id"}

duplicated_on_id_cols(table) == Duplicated(table, id_cols)

\* df.duplicated()
duplicated(table) == Duplicated(table, FrameColumns)

\* The dictionary check_consistency returns.
check_consistency_result(table) ==
    [duplicate_rows |-> Cardinality(duplicated(table)),
     id_column_issues |->
         [col \in id_cols |->
             [null_ids |-> isnull_sum(table)[col],
              duplicate_ids |-> Cardinality(Duplicated(table, {col}))]]]

check_consistency ==
    /\ "check_consistency" \notin called
    /\ consistency' = check_consistency_result(frame)
    /\ called' = called \cup {"check_consistency"}
    /\ UNCHANGED <<frame, completeness, validation>>
    /\ UNCHANGED <<mergeVars, scoreVars, iqrVars, corrVars, pipeVars, runVars, analyzerVars, assessVars, accuracyVars>>

\* ---- validate_dataset

MaxValidatedRows == 4

\* df[col]
ColumnCells(table, col) == [i \in 1..Len(table) |-> table[i][col]]

\* The dictionary check_accuracy returns: every numeric column that has a
\* value, with the number of its IQR outliers.
check_accuracy_result(table) ==
    [columns_with_outliers |->
        [col \in {c \in FrameColumns : Len(dropna(ColumnCells(table, c))) > 0} |->
            DroppedOutliers(dropna(ColumnCells(table, col)))]]

\* A duplicate count that adds the repeated ids to the repeated rows.
duplicates_with_ids(checked_consistency) ==
    checked_consistency.duplicate_rows
        + SumOf([col \in id_cols |-> checked_consistency.id_column_issues[col].duplicate_ids],
                id_cols)

\* consistency['duplicate_rows']
duplicates_scored(checked_consistency) == checked_consistency.duplicate_rows

\* 85 * 0.3, the default accuracy score and its weight, in tenths.
DefaultAccuracyTenths == 255

\* overall_score = completeness_score * 0.4 + 85 * 0.3
\*                 + (100 - min(duplicate_rows / len(df) * 100, 100)) * 0.3,
\* as an exact fraction, for a table with a row and a completeness score.
overall_score(table, checked_completeness, checked_consistency) ==
    LET n == Len(table)
        c == checked_completeness.completeness_score
        d == duplicates_scored(checked_consistency)
    IN Fraction(4 * c.num * n
                + DefaultAccuracyTenths * c.den * n
                + 3 * (100 * n - Min(d * 100, 100 * n)) * c.den,
                10 * c.den * n)

\* validate_dataset: the three checks, then the score. On a table without
\* rows duplicate_rows / len(df) divides an int by zero, and nothing is
\* stored in self.results.
validate_dataset ==
    /\ "validate_dataset" \notin called
    /\ called' = called \cup {"validate_dataset"}
    /\ LET checked_completeness == check_completeness_result(frame)
           checked_accuracy == check_accuracy_result(frame)
           checked_consistency == check_consistency_result(frame)
       IN validation' =
            IF Len(frame) = 0 THEN [raised |-> "ZeroDivisionError"]
            ELSE [raised |-> "",
                  overall_score |->
                      overall_score(frame, checked_completeness, checked_consistency),
                  completeness |-> checked_completeness,
                  accuracy |-> checked_accuracy,
                  consistency |-> checked_consistency]
    /\ UNCHANGED <<frame, completeness, consistency>>
    /\ UNCHANGED <<mergeVars, scoreVars, iqrVars, corrVars, pipeVars, runVars, analyzerVars, assessVars, accuracyVars>>

ValidatorIdle ==
    /\ frame = <<>>
    /\ completeness = EmptyMap
    /\ consistency = EmptyMap
    /\ validation = EmptyMap

-----------------------------------------------------------------------------
(* generated_code/analysis_functions.py: EcommerceAnalyzer.                  *)
(* calculate_order_metrics and temporal_analysis on one orders table, whose *)
(* timestamps are datetimes or missing, as clean_orders leaves them. Both   *)
(* functions write the columns they derive into the table they are given.   *)

MaxOrders == 2

\* A timestamp is [year, month, day, hour].
Timestamps ==
    {[year |-> 2024, month |-> 1, day |-> 1, hour |-> 10],
     [year |-> 2024, month |-> 1, day |-> 1, hour |-> 14],
     [year |-> 2024, month |-> 2, day |-> 5, hour |-> 10]}

AnalyzerCustomerIds == {1, 2}

MonthOffsets == <<0, 3, 2, 5, 0, 3, 5, 1, 4, 6, 2, 4>>

\* Series.dt.date
dt_date(ts) == [year |-> ts.year, month |-> ts.month, day |-> ts.day]

\* Series.dt.hour
dt_hour(ts) == ts.hour

\* Series.dt.dayofweek: Monday is 0.
dt_dayofweek(ts) ==
    LET y == IF ts.month < 3 THEN ts.year - 1 ELSE ts.year
        sunday0 == (y + (y \div 4) - (y \div 100) + (y \div 400)
                    + MonthOffsets[ts.month] + ts.day) % 7
    IN (sunday0 + 6) % 7

\* Series.dt.to_period('M')
dt_month(ts) == [year |-> ts.year, month |-> ts.month]

\* The orders tables: order_id is the row number, customer_id and the
\* purchase timestamp may be missing, the timestamp column may be absent.
OrdersTables ==
    LET with_ts == [order_id : {0}, customer_id : {Missing} \cup {<<c>> : c \in AnalyzerCustomerIds},
                    order_purchase_timestamp : {Missing} \cup {<<t>> : t \in Timestamps}]
        without_ts == [order_id : {0}, customer_id : {Missing} \cup {<<c>> : c \in AnalyzerCustomerIds}]
        number(rows) == [i \in 1..Len(rows) |-> [rows[i] EXCEPT !.order_id = <<i>>]]
    IN {[columns |-> {"order_id", "customer_id", "order_purchase_timestamp"},
         rows |-> number(rows)] : rows \in SeqsUpTo(with_ts, MaxOrders)}
       \cup
       {[columns |-> {"order_id", "customer_id"},
         rows |-> number(rows)] : rows \in SeqsUpTo(without_ts, MaxOrders)}

\* What each derived column holds for a timestamp.
Derive(name, ts) ==
    CASE name = "order_date" -> dt_date(ts)
      [] name = "hour" -> dt_hour(ts)
      [] name = "day_of_week" -> dt_dayofweek(ts)
      [] name = "month" -> dt_month(ts)

\* df[name] = the value derived from df[from], cell by cell, a missing cell
\* staying missing.
WithColumn(table, name, from) ==
    [columns |-> table.columns \cup {name},
     rows |-> [i \in 1..Len(table.rows) |->
                 [c \in DOMAIN table.rows[i] \cup {name} |->
                     IF c = name
                     THEN (IF table.rows[i][from] = Missing THEN Missing
                           ELSE <<Derive(name, table.rows[i][from][1])>>)
                     ELSE table.rows[i][c]]]]

\* The values of a column that are not missing.
Present(table, col) ==
    {table.rows[i][col][1] : i \in {k \in 1..Len(table.rows) : table.rows[k][col] # Missing}}

\* Series.nunique(): missing values are not counted.
nunique(table, col) == Cardinality(Present(table, col))

\* d with key k set to v, as `d[k] = v` does.
Set(d, k, v) == [x \in DOMAIN d \cup {k} |-> IF x = k THEN v ELSE d[x]]

\* The division of two Python ints raises ZeroDivisionError.
calculate_order_metrics ==
    /\ "calculate_order_metrics" \notin called
    /\ LET has(c) == c \in orders_df.columns
           m1 == IF has("order_id") THEN Set(EmptyMap, "total_orders", Len(orders_df.rows))
                 ELSE EmptyMap
           dated == IF has("order_purchase_timestamp")
                    THEN WithColumn(orders_df, "order_date", "order_purchase_timestamp")
                    ELSE orders_df
           unique_days == nunique(dated, "order_date")
           raised == has("order_purchase_timestamp") /\ unique_days = 0
           m2 == IF has("order_purchase_timestamp") /\ ~raised
                 THEN Set(Set(m1, "unique_days", unique_days),
                          "avg_orders_per_day", Fraction(m1["total_orders"], unique_days))
                 ELSE m1
           m3 == IF has("customer_id")
                 THEN Set(m2, "unique_customers", nunique(orders_df, "customer_id"))
                 ELSE m2
       IN /\ orders_df' = dated
          /\ order_metrics' = [raised |-> raised, metrics |-> IF raised THEN EmptyMap ELSE m3]
    /\ called' = called \cup {"calculate_order_metrics"}
    /\ UNCHANGED temporal
    /\ UNCHANGED <<mergeVars, scoreVars, iqrVars, corrVars, pipeVars, runVars, validatorVars, assessVars, accuracyVars>>

\* df.groupby(col).size().to_dict(): value -> the number of rows that hold
\* it; the rows where the column is missing are in no group.
GroupSizes(table, col) ==
    [v \in Present(table, col) |->
        Cardinality({i \in 1..Len(table.rows) : table.rows[i][col] = <<v>>})]

\* Some row has a purchase timestamp.
HasSomeTimestamp(table) ==
    /\ "order_purchase_timestamp" \in table.columns
    /\ Present(table, "order_purchase_timestamp") # {}

\* 'order_purchase_timestamp' in orders_df.columns
HasTimestampColumn(table) == "order_purchase_timestamp" \in table.columns

temporal_analysis ==
    /\ "temporal_analysis" \notin called
    /\ IF ~HasTimestampColumn(orders_df)
       THEN /\ temporal' = EmptyMap
            /\ UNCHANGED orders_df
       ELSE LET h == WithColumn(orders_df, "hour", "order_purchase_timestamp")
                d == WithColumn(h, "day_of_week", "order_purchase_timestamp")
                m == WithColumn(d, "month", "order_purchase_timestamp")
            IN /\ temporal' = [hourly_distribution |-> GroupSizes(h, "hour"),
                               daily_distribution |-> GroupSizes(d, "day_of_week"),
                               monthly_trend |-> GroupSizes(m, "month")]
               /\ orders_df' = m
    /\ called' = called \cup {"temporal_analysis"}
    /\ UNCHANGED order_metrics
    /\ UNCHANGED <<mergeVars, scoreVars, iqrVars, corrVars, pipeVars, runVars, validatorVars, assessVars, accuracyVars>>

AnalyzerIdle ==
    /\ orders_df = [columns |-> {}, rows |-> <<>>]
    /\ order_metrics = [raised |-> FALSE, metrics |-> EmptyMap]
    /\ temporal = EmptyMap


-----------------------------------------------------------------------------
(* data_quality_assessment.py: the body of the loop of run_assessment, which *)
(* scores one dataset and stores the result. The dataset has an id column,  *)
(* a price column and any of four date columns; a date is known by its age  *)
(* in days when the assessment runs. Scores are in hundredths of a point.   *)

MaxAssessRows == 2

DateColumnNames == {"order_date", "approval_date", "shipping_date", "delivery_date"}

\* The ages a date can have, on both sides of the recency limit.
DateAges == {29, 30}

RecentDays == 30
TimelinessDefault == 8500
TimelinessBoost == 500

\* The columns of n cells a date column is drawn from: without a date, with
\* one date throughout, or with one recent date and older ones.
DateColumnChoices(n) ==
    {[i \in 1..n |-> Missing]}
    \cup {[i \in 1..n |-> <<a>>] : a \in DateAges}
    \cup {[i \in 1..n |-> IF i = 1 THEN <<29>> ELSE <<30>>]}

\* The datasets: [order_id, price, dates], each column a sequence of n cells.
AssessedTables ==
    UNION {
        [order_id : [1..n -> {Missing, <<1>>}],
         price : [1..n -> {<<0 - 5>>, <<5>>}],
         dates : UNION {[names -> DateColumnChoices(n)] : names \in SUBSET DateColumnNames}]
        : n \in 1..MaxAssessRows}

\* The columns of a table, by name.
ColumnsOf(table) ==
    [c \in {"order_id", "price"} \cup DOMAIN table.dates |->
        IF c = "order_id" THEN table.order_id
        ELSE IF c = "price" THEN table.price ELSE table.dates[c]]

\* round(num / den, 2) in hundredths, for num given in hundredths: on an
\* exact tie either neighbour can come out of the binary float.
RoundFraction(num, den) ==
    LET q == num \div den
        r == num % den
    IN IF 2 * r < den THEN {q} ELSE IF 2 * r > den THEN {q + 1} ELSE {q, q + 1}

\* assess_completeness: round((1 - missing_cells / total_cells) * 100, 2)
assess_completeness(table) ==
    LET cols == ColumnsOf(table)
        n == Len(table.order_id)
        total == n * Cardinality(DOMAIN cols)
        missing == Cardinality({<<c, i>> \in (DOMAIN cols) \X (1..n) : cols[c][i] = Missing})
    IN RoundFraction((total - missing) * 10000, total)

\* assess_accuracy: max(0, 100 - len(issues) * 5 - len(type_issues) * 3). An
\* issue is a numeric column named after a price, quantity, amount or value
\* that holds a negative number; pd.to_datetime(errors='coerce') does not
\* raise on a column of dates, so type_issues stays empty.
assess_accuracy_score(table) ==
    LET issues == IF \E i \in 1..Len(table.price) : table.price[i][1] < 0 THEN 1 ELSE 0
        type_issues == 0
    IN Max(0, 10000 - issues * 500 - type_issues * 300)

\* assess_consistency: max(0, 100 - duplicate_percentage - 5 per issue),
\* rounded; an issue is an id column with a null, or one with a repeated value.
assess_consistency(table) ==
    LET cols == ColumnsOf(table)
        n == Len(table.order_id)
        duplicate_rows ==
            Cardinality({i \in 1..n : \E j \in 1..(i - 1) :
                            \A c \in DOMAIN cols : cols[c][j] = cols[c][i]})
        null_ids == \E i \in 1..n : table.order_id[i] = Missing
        duplicate_ids == \E i \in 1..n : \E j \in 1..(i - 1) :
                            table.order_id[j] = table.order_id[i]
        issues == (IF null_ids THEN 1 ELSE 0) + (IF duplicate_ids THEN 1 ELSE 0)
        exact == (100 * n - 100 * duplicate_rows - 5 * issues * n) * 100
    IN IF exact <= 0 THEN {0} ELSE RoundFraction(exact, n)

\* (pd.Timestamp.now() - most_recent).days of a date column that has a date.
days_old(column) ==
    LET ages == {column[i][1] : i \in {k \in 1..Len(column) : column[k] # Missing}}
    IN CHOOSE a \in ages : \A b \in ages : a <= b

\* The date columns that raise the score: those with a date whose most
\* recent one is less than 30 days old.
RecentColumns(table) ==
    {c \in DOMAIN table.dates :
        /\ \E i \in 1..Len(table.dates[c]) : table.dates[c][i] # Missing
        /\ days_old(table.dates[c]) < RecentDays}

\* A boost without the cap.
BoostUncapped(score) == score + TimelinessBoost

\* timeliness_score = min(100, timeliness_score + 5)
Boost(score) == Min(10000, score + TimelinessBoost)

RECURSIVE BoostTimes(_, _)
BoostTimes(score, k) == IF k = 0 THEN score ELSE BoostTimes(Boost(score), k - 1)

\* assess_timeliness: 85, boosted once for each recent date column.
assess_timeliness(table) == BoostTimes(TimelinessDefault, Cardinality(RecentColumns(table)))

\* The body of the loop of run_assessment for one dataset.
assess_dataset ==
    /\ "assess_dataset" \notin called
    /\ \E c \in assess_completeness(quality_df), k \in assess_consistency(quality_df) :
          LET s == [completeness |-> c,
                    accuracy |-> assess_accuracy_score(quality_df),
                    consistency |-> k,
                    timeliness |-> assess_timeliness(quality_df)]
          IN \E o \in round2(WeightedSum(s)) :
                quality_result' =
                    [shape |-> [rows |-> Len(quality_df.order_id),
                                columns |-> Cardinality(DOMAIN ColumnsOf(quality_df))],
                     completeness_score |-> s.completeness,
                     accuracy_score |-> s.accuracy,
                     consistency_score |-> s.consistency,
                     timeliness_score |-> s.timeliness,
                     overall_quality_score |-> o]
    /\ called' = called \cup {"assess_dataset"}
    /\ UNCHANGED quality_df
    /\ UNCHANGED <<mergeVars, scoreVars, iqrVars, corrVars, pipeVars, runVars,
                   validatorVars, analyzerVars, accuracyVars>>

AssessIdle ==
    /\ quality_df = [order_id |-> <<>>, price |-> <<>>, dates |-> EmptyMap]
    /\ quality_result = EmptyMap

-----------------------------------------------------------------------------
(* DataQualityAssessment.assess_accuracy: the score and the outlier count *)

MaxAccuracyRows == 4

\* numeric_cols, in the order of the table.
AccuracyColumns == <<"price", "freight_value", "order_item_id">>

\* The words found in col.lower() for each column.
WordsIn(col) ==
    CASE col = "price" -> {"price"}
      [] col = "freight_value" -> {"freight", "value"}
      [] col = "order_item_id" -> {"order", "item", "id"}

\* The tables: prices below, at and above zero, freight that is zero but
\* possibly for a negative first cell, item numbers at or below zero.
AccuracyTables ==
    UNION {
        [price : [1..n -> {<<0 - 1>>, <<0>>, <<1>>}],
         freight_value : {[i \in 1..n |-> <<0>>],
                          [i \in 1..n |-> IF i = 1 THEN <<0 - 1>> ELSE <<0>>]},
         order_item_id : [1..n -> {<<0 - 1>>, <<0>>}]]
        : n \in 1..MaxAccuracyRows}

\* A negative-value test applied to every numeric column.
AnyColumn(col) == TRUE

\* 'price' in col.lower() or 'quantity' in col.lower() or
\* 'amount' in col.lower() or 'value' in col.lower()
NamedAfterAmount(col) == WordsIn(col) \cap {"price", "quantity", "amount", "value"} # {}

\* (df[col] < 0).any()
AnyNegative(column) == \E i \in 1..Len(column) : column[i] # Missing /\ column[i][1] < 0

\* A column named after a date or a time, which none of these is;
\* pd.to_datetime(errors='coerce') would not raise on one either.
NamedAfterDate(col) == WordsIn(col) \cap {"date", "time"} # {}

\* The dictionary assess_accuracy returns, accuracy_score in hundredths.
assess_accuracy_result(table) ==
    LET outlier_count ==
            SumOver([c \in 1..Len(AccuracyColumns) |-> AssessColumn(table[AccuracyColumns[c]])], 1)
        issues == {col \in Range(AccuracyColumns) :
                      NamedAfterAmount(col) /\ AnyNegative(table[col])}
        type_issues == {col \in Range(AccuracyColumns) : NamedAfterDate(col) /\ FALSE}
    IN [accuracy_score |->
            Max(0, 10000 - Cardinality(issues) * 500 - Cardinality(type_issues) * 300),
        outlier_count |-> outlier_count,
        data_issues |-> issues,
        type_issues |-> type_issues]

run_assess_accuracy ==
    /\ "run_assess_accuracy" \notin called
    /\ called' = called \cup {"run_assess_accuracy"}
    /\ accuracy_result' = assess_accuracy_result(accuracy_df)
    /\ UNCHANGED accuracy_df
    /\ UNCHANGED <<mergeVars, scoreVars, iqrVars, corrVars, pipeVars, runVars,
                   validatorVars, analyzerVars, assessVars>>

AccuracyIdle ==
    /\ accuracy_df = EmptyMap
    /\ accuracy_result = EmptyMap

GenIdle ==
    /\ RunIdle
    /\ ValidatorIdle
    /\ AnalyzerIdle
    /\ AssessIdle
    /\ AccuracyIdle

-----------------------------------------------------------------------------
(* Specifications: one per group of operations. Each starts the group's    *)
(* variables from every input within the bounds and holds the others idle. *)

InitScore ==
    /\ scores \in [Components -> ScoreChoices]
    /\ overall = 0
    /\ called = {}
    /\ MergeIdle
    /\ IqrIdle
    /\ CorrIdle
    /\ PipelineIdle
    /\ GenIdle

NextScore == calculate_overall_score

SpecScore == InitScore /\ [][NextScore]_vars

InitMerge ==
    /\ tables \in {t \in [{"Orders", "Customers", "Order Items"} ->
                            UNION {TableChoices(n) : n \in {"Orders", "Customers", "Order Items"}}] :
                     \A n \in DOMAIN t : t[n] \in TableChoices(n)}
    /\ called = {}
    /\ data = EmptyMap
    /\ cross = EmptyMap
    /\ behavior = <<>>
    /\ ScoreIdle
    /\ IqrIdle
    /\ CorrIdle
    /\ PipelineIdle
    /\ GenIdle

NextMerge ==
    \/ merge_datasets
    \/ cross_dataset_analysis
    \/ analyze_customer_behavior

SpecMerge == InitMerge /\ [][NextMerge]_vars

\* The table has up to MaxNumericCols numeric columns; the last one ranges over
\* every column of up to MaxColLen cells, the ones before it are filler.
InitIqr ==
    /\ \E k \in 1..MaxNumericCols, col \in SeqsUpTo(Cells, MaxColLen) :
          df = [c \in 1..k |-> IF c = k THEN col ELSE FillerColumn]
    /\ accuracy = 0
    /\ anomalies = <<>>
    /\ checked = EmptyMap
    /\ called = {}
    /\ MergeIdle
    /\ ScoreIdle
    /\ CorrIdle
    /\ PipelineIdle
    /\ GenIdle

NextIqr ==
    \/ assess_accuracy
    \/ detect_anomalies
    \/ check_accuracy

SpecIqr == InitIqr /\ [][NextIqr]_vars

\* The table is up to MaxCopies copies, side by side, of up to MaxBaseCols
\* columns drawn from CorrColumns.
InitCorr ==
    /\ \E base \in SeqsUpTo(CorrColumns, MaxBaseCols), m \in 1..MaxCopies :
          numeric_df = [c \in 1..(m * Len(base)) |-> base[((c - 1) % Len(base)) + 1]]
    /\ correlations = [strong_correlations |-> <<>>, moderate_correlations |-> <<>>]
    /\ strong_corrs = <<>>
    /\ called = {}
    /\ MergeIdle
    /\ ScoreIdle
    /\ IqrIdle
    /\ PipelineIdle
    /\ GenIdle

NextCorr ==
    \/ analyze_correlations
    \/ correlation_analysis

SpecCorr == InitCorr /\ [][NextCorr]_vars

\* data_dir holds the eight files, up to MaxFaults of them missing or
\* unreadable, or does not exist at all; no stage has run.
InitPipeline ==
    /\ data_dir_exists \in BOOLEAN
    /\ data_storage \in [CsvNames -> {"readable", "unreadable", "absent"}]
    /\ Cardinality({f \in CsvNames : data_storage[f] # "readable"}) <= MaxFaults
          \/ (~data_dir_exists /\ \A f \in CsvNames : data_storage[f] = "absent")
    /\ data_dir_exists \/ \A f \in CsvNames : data_storage[f] = "absent"
    /\ files = NoFiles
    /\ reads = {}
    /\ writes = {}
    /\ status = [s \in StageNames |-> "not run"]
    /\ loaded = [s \in StageNames |-> {}]
    /\ called = {}
    /\ MergeIdle
    /\ ScoreIdle
    /\ IqrIdle
    /\ CorrIdle
    /\ GenIdle

Next ==
    \/ run_assessment
    \/ run_analysis
    \/ run_hypothesis_generation
    \/ run_visualization_creation
    \/ run_code_generation
    \/ run_report_generation

Spec == InitPipeline /\ [][Next]_vars

\* ---- CompleteAnalysisPipeline: run() then export_results() on every data_dir

InitRun ==
    /\ raw \in [Range(RawNames) -> {"absent", "empty", "undated", "unmatched", "rows"}]
    /\ \A n \in Range(RawNames) : raw[n] \in RawStates(n)
    /\ data_keys = {}
    /\ validated = {}
    /\ analyzed = {}
    /\ run_results = NoResults
    /\ run_pc = "start"
    /\ exported = [status |-> "not run", serializable_results |-> Dict({})]
    /\ called = {}
    /\ MergeIdle
    /\ ScoreIdle
    /\ IqrIdle
    /\ CorrIdle
    /\ PipelineIdle
    /\ ValidatorIdle
    /\ AnalyzerIdle
    /\ AssessIdle
    /\ AccuracyIdle

NextRun ==
    \/ run_load_and_clean
    \/ run_validate
    \/ run_analyze
    \/ run_insights_and_report
    \/ export_results

SpecRun == InitRun /\ [][NextRun]_vars

\* ---- DataQualityValidator: the two checks on every table within the bound

InitValidator ==
    /\ frame \in SeqsUpTo(FrameRows, MaxFrameRows)
    /\ completeness = EmptyMap
    /\ consistency = EmptyMap
    /\ validation = EmptyMap
    /\ called = {}
    /\ MergeIdle
    /\ ScoreIdle
    /\ IqrIdle
    /\ CorrIdle
    /\ PipelineIdle
    /\ RunIdle
    /\ AnalyzerIdle
    /\ AssessIdle
    /\ AccuracyIdle

NextValidator ==
    \/ check_completeness
    \/ check_consistency

SpecValidator == InitValidator /\ [][NextValidator]_vars

\* ---- DataQualityValidator.validate_dataset on every table within the bound

InitValidate ==
    /\ frame \in SeqsUpTo(FrameRows, MaxValidatedRows)
    /\ completeness = EmptyMap
    /\ consistency = EmptyMap
    /\ validation = EmptyMap
    /\ called = {}
    /\ MergeIdle
    /\ ScoreIdle
    /\ IqrIdle
    /\ CorrIdle
    /\ PipelineIdle
    /\ RunIdle
    /\ AnalyzerIdle
    /\ AssessIdle
    /\ AccuracyIdle

NextValidate == validate_dataset

SpecValidate == InitValidate /\ [][NextValidate]_vars

\* ---- EcommerceAnalyzer: the two functions on every orders table within the bound

InitAnalyzer ==
    /\ orders_df \in OrdersTables
    /\ order_metrics = [raised |-> FALSE, metrics |-> EmptyMap]
    /\ temporal = EmptyMap
    /\ called = {}
    /\ MergeIdle
    /\ ScoreIdle
    /\ IqrIdle
    /\ CorrIdle
    /\ PipelineIdle
    /\ RunIdle
    /\ ValidatorIdle
    /\ AssessIdle
    /\ AccuracyIdle

NextAnalyzer ==
    \/ calculate_order_metrics
    \/ temporal_analysis

SpecAnalyzer == InitAnalyzer /\ [][NextAnalyzer]_vars

\* ---- DataQualityAssessment: the scoring of every dataset within the bound

InitAssess ==
    /\ quality_df \in AssessedTables
    /\ quality_result = EmptyMap
    /\ called = {}
    /\ MergeIdle
    /\ ScoreIdle
    /\ IqrIdle
    /\ CorrIdle
    /\ PipelineIdle
    /\ RunIdle
    /\ ValidatorIdle
    /\ AnalyzerIdle
    /\ AccuracyIdle

NextAssess == assess_dataset

SpecAssess == InitAssess /\ [][NextAssess]_vars

\* ---- DataQualityAssessment.assess_accuracy on every table within the bound

InitAccuracy ==
    /\ accuracy_df \in AccuracyTables
    /\ accuracy_result = EmptyMap
    /\ called = {}
    /\ MergeIdle
    /\ ScoreIdle
    /\ IqrIdle
    /\ CorrIdle
    /\ PipelineIdle
    /\ RunIdle
    /\ ValidatorIdle
    /\ AnalyzerIdle
    /\ AssessIdle

NextAccuracy == run_assess_accuracy

SpecAccuracy == InitAccuracy /\ [][NextAccuracy]_vars

-----------------------------------------------------------------------------
(* Claims *)

\* The order rows a merged frame holds, on the side the orders table went in.
OrdersKept(merged, side) == {merged[k][side] : k \in 1..Len(merged)}

OrdersOf == {Rows("Orders")[i] : i \in 1..Len(Rows("Orders"))}

\* Every merged row pairs two rows that agree on the key, and every such pair
\* of rows is in the frame: an inner join.
IsInnerJoinOn(merged, left, right, key) ==
    /\ \A k \in 1..Len(merged) :
          /\ merged[k].right # NaN
          /\ merged[k].left[key] = merged[k].right[key]
    /\ \A i \in 1..Len(left), j \in 1..Len(right) :
          left[i][key] = right[j][key] =>
             \E k \in 1..Len(merged) : merged[k] = [left |-> left[i], right |-> right[j]]

\* C1: every orders-items merge is an inner join on order_id and every
\* orders-customers merge keeps every order row (a left join on customer_id),
\* in merge_datasets, cross_dataset_analysis and analyze_customer_behavior.
C1_JoinTypes ==
    /\ "Orders_Items_merged" \in DOMAIN data =>
          IsInnerJoinOn(data["Orders_Items_merged"], Rows("Orders"),
                        Rows("Order Items"), "order_id")
    /\ "orders_items" \in DOMAIN cross =>
          IsInnerJoinOn(cross["orders_items"], Rows("Orders"),
                        Rows("Order Items"), "order_id")
    /\ "Orders_Customers_merged" \in DOMAIN data =>
          OrdersOf \subseteq OrdersKept(data["Orders_Customers_merged"], "left")
    /\ "analyze_customer_behavior" \in called => OrdersOf \subseteq OrdersKept(behavior, "left")
    /\ "customers_orders" \in DOMAIN cross =>
          OrdersOf \subseteq OrdersKept(cross["customers_orders"], "right")

\* The part of C1 the code keeps: the joins of the generated modules.
C1_GeneratedJoinTypes ==
    /\ "Orders_Items_merged" \in DOMAIN data =>
          IsInnerJoinOn(data["Orders_Items_merged"], Rows("Orders"),
                        Rows("Order Items"), "order_id")
    /\ "orders_items" \in DOMAIN cross =>
          IsInnerJoinOn(cross["orders_items"], Rows("Orders"),
                        Rows("Order Items"), "order_id")
    /\ "Orders_Customers_merged" \in DOMAIN data =>
          OrdersOf \subseteq OrdersKept(data["Orders_Customers_merged"], "left")
    /\ "analyze_customer_behavior" \in called => OrdersOf \subseteq OrdersKept(behavior, "left")

MinScore(s) == CHOOSE m \in {s[c] : c \in Components} : \A c \in Components : m <= s[c]

MaxScore(s) == CHOOSE m \in {s[c] : c \in Components} : \A c \in Components : m >= s[c]

\* C2: the overall score is the weighted sum 0.35/0.30/0.20/0.15 of the four
\* component scores rounded to two decimals; it lies between the smallest and
\* the largest component score and equals s when all four equal s.
C2_OverallScoreIsWeightedMean ==
    "calculate_overall_score" \in called =>
        /\ 100 * overall - 50 <= 35 * scores.completeness + 30 * scores.accuracy
                                 + 20 * scores.consistency + 15 * scores.timeliness
        /\ 35 * scores.completeness + 30 * scores.accuracy
           + 20 * scores.consistency + 15 * scores.timeliness <= 100 * overall + 50
        /\ MinScore(scores) <= overall
        /\ overall <= MaxScore(scores)
        /\ (\A c \in Components : scores[c] = scores.completeness) =>
              overall = scores.completeness

\* A call on four different component scores whose weighted sum is not a whole
\* number of hundredths, so that the rounding acts.
C2_Witness ==
    /\ "calculate_overall_score" \in called
    /\ MinScore(scores) < overall
    /\ overall < MaxScore(scores)
    /\ Cardinality({scores[c] : c \in Components}) = 4
    /\ WeightedSum(scores) % 100 # 0

\* What detect_anomalies reports for column c: the count of its entry, or no
\* outlier when it has no entry.
AnomalyCount(c) ==
    IF \E k \in 1..Len(anomalies) : anomalies[k].column = c
       THEN (CHOOSE e \in {anomalies[k] : k \in 1..Len(anomalies)} : e.column = c).outlier_count
       ELSE 0

\* The IQR rule as the claim words it: the values of the column strictly
\* outside [Q1 - 1.5*IQR, Q3 + 1.5*IQR], missing cells never counted.
RuleCount(col) ==
    LET values == dropna(col)
        Q1x4 == quantile4(values, 1)
        Q3x4 == quantile4(values, 3)
        IQRx4 == Q3x4 - Q1x4
    IN IF values = <<>> THEN 0
       ELSE Cardinality({i \in 1..Len(col) :
               /\ col[i] # Missing
               /\ \/ 8 * col[i][1] < 2 * Q1x4 - 3 * IQRx4
                  \/ 8 * col[i][1] > 2 * Q3x4 + 3 * IQRx4})

CheckedCount(c) == IF c \in DOMAIN checked THEN checked[c] ELSE 0

\* C3 as stated: for every numeric column the three detectors count the same
\* outliers, those strictly outside the 1.5*IQR fences.
C3_SameCountEveryColumn ==
    /\ "check_accuracy" \in called =>
          \A c \in 1..Len(df) : CheckedCount(c) = RuleCount(df[c])
    /\ "detect_anomalies" \in called =>
          \A c \in 1..Len(df) : AnomalyCount(c) = RuleCount(df[c])
    /\ "assess_accuracy" \in called =>
          accuracy = SumOver([c \in 1..Len(df) |-> RuleCount(df[c])], 1)

\* C3 amended: the same, for detect_anomalies on the first eight numeric
\* columns only; it reports nothing for a later column.
C3_SameCountExaminedColumns ==
    /\ "check_accuracy" \in called =>
          \A c \in 1..Len(df) : CheckedCount(c) = RuleCount(df[c])
    /\ "detect_anomalies" \in called =>
          \A c \in 1..Len(df) :
             AnomalyCount(c) = IF c <= 8 THEN RuleCount(df[c]) ELSE 0
    /\ "assess_accuracy" \in called =>
          accuracy = SumOver([c \in 1..Len(df) |-> RuleCount(df[c])], 1)

\* All three detectors have run on a column with a missing cell, an outlier
\* and a value that is not one.
C3_Witness ==
    /\ called = {"assess_accuracy", "detect_anomalies", "check_accuracy"}
    /\ \E c \in 1..Len(df) :
          /\ c <= 8
          /\ \E i \in 1..Len(df[c]) : df[c][i] = Missing
          /\ RuleCount(df[c]) > 0
          /\ RuleCount(df[c]) < Len(dropna(df[c]))
          /\ AnomalyCount(c) = RuleCount(df[c])
          /\ accuracy = RuleCount(df[c])

\* The pairs a list of entries names, by the two fields that hold the columns.
PairsIn(list, f1, f2) == {<<list[k][f1], list[k][f2]>> : k \in 1..Len(list)}

ColumnPairs == {<<i, j>> \in (1..Len(numeric_df)) \X (1..Len(numeric_df)) : i < j}

AbsR_Above(p, t) == AbsAbove(numeric_df[p[1]], numeric_df[p[2]], t)

\* C4: both scans put a pair of columns into strong_correlations exactly when
\* |r| > 0.7, so they agree on which pairs are strong.
C4_BothScansUseStrongThreshold ==
    /\ "correlation_analysis" \in called =>
          \A p \in ColumnPairs :
             p \in PairsIn(strong_corrs, "var1", "var2") <=> AbsR_Above(p, 70)
    /\ "analyze_correlations" \in called =>
          \A p \in ColumnPairs :
             p \in PairsIn(correlations.strong_correlations, "variable_1", "variable_2")
                <=> AbsR_Above(p, 70)
    /\ {"correlation_analysis", "analyze_correlations"} \subseteq called =>
          PairsIn(strong_corrs, "var1", "var2")
             = PairsIn(correlations.strong_correlations, "variable_1", "variable_2")

StrongPairs == PairsIn(correlations.strong_correlations, "variable_1", "variable_2")

ModeratePairs == PairsIn(correlations.moderate_correlations, "variable_1", "variable_2")

NoPairTwice(list) ==
    \A k, l \in 1..Len(list) :
       (list[k].variable_1 = list[l].variable_1 /\ list[k].variable_2 = list[l].variable_2)
          => k = l

LabelsRight(list, kind) ==
    \A k \in 1..Len(list) :
       list[k].strength =
          IF Positive(numeric_df[list[k].variable_1], numeric_df[list[k].variable_2])
             THEN kind \o "_positive" ELSE kind \o "_negative"

IsModerate(p) ==
    /\ AbsR_Above(p, 40)
    /\ ~AbsR_Above(p, 70)
    /\ ~Undefined(numeric_df[p[1]], numeric_df[p[2]])

\* C5 as stated: every pair i < j is in strong_correlations iff |r| > 0.7 and
\* in moderate_correlations iff 0.4 < |r| <= 0.7; no pair is in both or twice;
\* the label is positive iff r > 0.
C5_BucketsPartitionPairs ==
    "analyze_correlations" \in called =>
        /\ \A p \in ColumnPairs : p \in StrongPairs <=> AbsR_Above(p, 70)
        /\ \A p \in ColumnPairs : p \in ModeratePairs <=> IsModerate(p)
        /\ StrongPairs \cap ModeratePairs = {}
        /\ StrongPairs \cup ModeratePairs \subseteq ColumnPairs
        /\ NoPairTwice(correlations.strong_correlations)
        /\ NoPairTwice(correlations.moderate_correlations)
        /\ LabelsRight(correlations.strong_correlations, "strong")
        /\ LabelsRight(correlations.moderate_correlations, "moderate")

\* p comes before q in the scan: row by row.
Before(p, q) == p[1] < q[1] \/ (p[1] = q[1] /\ p[2] < q[2])

\* kept holds the first ten pairs of bucket in scan order, or all of them when
\* there are fewer: a pair of bucket is kept iff fewer than ten pairs of bucket
\* come before it.
IsFirstTenOf(kept, bucket) ==
    /\ kept \subseteq bucket
    /\ Cardinality(kept) = IF Cardinality(bucket) < 10 THEN Cardinality(bucket) ELSE 10
    /\ \A p \in kept : \A q \in bucket \ kept : Before(p, q)

\* C5 amended: every pair i < j with |r| > 0.7 is a strong pair and every pair
\* with 0.4 < |r| <= 0.7 a moderate one, but each list keeps only the first ten
\* pairs of its bucket in scan order; no pair is in both lists or twice in
\* one; the label is positive iff r > 0.
C5_BucketsKeepFirstTen ==
    "analyze_correlations" \in called =>
        \A strong \in {{q \in ColumnPairs : AbsR_Above(q, 70)}},
           moderate \in {{q \in ColumnPairs : IsModerate(q)}} :
           /\ IsFirstTenOf(StrongPairs, strong)
           /\ IsFirstTenOf(ModeratePairs, moderate)
           /\ StrongPairs \cap ModeratePairs = {}
           /\ StrongPairs \cup ModeratePairs \subseteq ColumnPairs
           /\ NoPairTwice(correlations.strong_correlations)
           /\ NoPairTwice(correlations.moderate_correlations)
           /\ LabelsRight(correlations.strong_correlations, "strong")
           /\ LabelsRight(correlations.moderate_correlations, "moderate")

\* The scan has run on a table with more than ten strong pairs, a negative
\* one among those kept, and a moderate pair.
C5_Witness ==
    /\ "analyze_correlations" \in called
    /\ Len(correlations.strong_correlations) = 10
    /\ Cardinality({p \in ColumnPairs : AbsR_Above(p, 70)}) > 10
    /\ ModeratePairs # {}
    /\ \E k \in 1..Len(correlations.strong_correlations) :
          correlations.strong_correlations[k].strength = "strong_negative"

\* The stages that load the CSV datasets of data_dir (all but the code generator).
LoadingStages == StageNames \ {"AnalysisCodeGenerator"}

WrittenBy(p) == {w[1] : w \in {v \in writes : v[2] = p}}

\* C6: besides the CSV datasets of data_dir and files it wrote itself, a stage
\* reads only files written by an earlier stage of the workflow order, never
\* one written by a later stage.
C6_ReadsOnlyEarlierOutputs ==
    \A r \in reads :
       \/ r[2][1] = "data_storage/"
       \/ /\ WrittenBy(r[2]) # {}
          /\ \A w \in WrittenBy(r[2]) : StageNumber(w) <= StageNumber(r[1])

\* The report stage has read the results of all four earlier stages, the
\* hypothesis stage the exploratory results, the visualization stage a chart
\* of its own.
C6_Witness ==
    /\ \A p \in ResultPaths : <<"ReportGenerator", p>> \in reads
    /\ <<"HypothesisGenerator", <<EdaDir, "exploratory_analysis_results.json">>>> \in reads
    /\ \E c \in DashboardCharts : <<"DataVisualization", <<VisualizationDir, c>>>> \in reads

OwnLocation(s, p) ==
    CASE s = "DataQualityAssessment" -> p[1] = "complete_analysis/data_quality_report/"
      [] s = "ExploratoryDataAnalysis" -> p[1] = "complete_analysis/exploratory_analysis/"
      [] s = "HypothesisGenerator" -> p[1] = "complete_analysis/hypothesis_reports/"
      [] s = "DataVisualization" -> p[1] = "complete_analysis/visualizations/"
      [] s = "AnalysisCodeGenerator" -> p[1] = "complete_analysis/generated_code/"
      [] s = "ReportGenerator" ->
            \/ p[1] = "complete_analysis/final_report/"
            \/ p = <<"complete_analysis/", "workflow_log.md">>

\* C7: each stage writes only under its own output location, no path is
\* written by two different stages, and nothing is written into data_dir.
C7_WritesOnlyOwnLocation ==
    /\ \A w \in writes : OwnLocation(w[1], w[2]) /\ w[2][1] # "data_storage/"
    /\ \A w1, w2 \in writes : w1[2] = w2[2] => w1[1] = w2[1]
    /\ \A p \in DOMAIN files : <<files[p].writer, p>> \in writes

\* Every stage has run to its end and saved its files.
C7_Witness ==
    /\ \A s \in StageNames : status[s] = "complete"
    /\ \A s \in StageNames : \E w \in writes : w[1] = s
    /\ <<"ReportGenerator", <<"complete_analysis/", "workflow_log.md">>>> \in writes

GeneratedPaths ==
    {<<"complete_analysis/generated_code/", n>> :
        n \in {"data_preprocessing.py", "quality_checks.py", "analysis_functions.py",
               "complete_analysis_pipeline.py", "test_analysis.py", "README.md",
               "requirements.txt"}}

C8_SevenStaticFiles ==
    status["AnalysisCodeGenerator"] = "complete" =>
        /\ {p \in DOMAIN files : files[p].writer = "AnalysisCodeGenerator"} = GeneratedPaths
        /\ \A p \in GeneratedPaths :
              files[p].content = [kind |-> "text", keys |-> {}, body |-> {p[2]}]
        /\ \A r \in reads : r[1] # "AnalysisCodeGenerator"

C8_SecondRunChangesNothing ==
    (run_code_generation /\ status["AnalysisCodeGenerator"] = "complete") => files' = files

\* C8: after run_code_generation the generator's files are exactly the seven
\* templates, each with the same content whatever data_dir holds and whatever
\* other stages have written; the generator reads nothing; and a further run
\* leaves every file as it was.
C8_GeneratorIsStatic == []C8_SevenStaticFiles /\ [][C8_SecondRunChangesNothing]_vars

\* The generator has run beside another stage's outputs, on a data_dir with a
\* missing or unreadable file.
C8_Witness ==
    /\ status["AnalysisCodeGenerator"] = "complete"
    /\ \E s \in LoadingStages : status[s] = "complete"
    /\ \E f \in CsvNames : data_storage[f] # "readable"

\* C9 as stated: when reading a dataset fails while a stage loads, the
\* exception propagates and the stage run stops.
C9_LoadFailureStopsStage ==
    \A s \in LoadingStages :
       (status[s] # "not run" /\ \E f \in CsvNames : data_storage[f] = "unreadable")
          => status[s] = "raised"

\* C9 amended: a failing pd.read_csv is caught by the loader, the file is left
\* out and the run goes on with the datasets that did load; only the failure
\* to list data_dir stops the stage.
C9_ReadFailureSkipsFile ==
    \A s \in LoadingStages :
       status[s] # "not run" =>
          IF data_dir_exists
             THEN /\ status[s] = "complete"
                  /\ loaded[s] = {f \in CsvNames : data_storage[f] = "readable"}
                  /\ \A f \in CsvNames :
                        data_storage[f] = "unreadable" => <<s, <<"data_storage/", f>>>> \in reads
             ELSE status[s] = "raised" /\ loaded[s] = {}

\* A stage has run on a data_dir with an unreadable CSV.
C9_Witness ==
    \E s \in LoadingStages :
       /\ status[s] = "complete"
       /\ \E f \in CsvNames : data_storage[f] = "unreadable"
       /\ loaded[s] # {}

JsonResults ==
    {<<"complete_analysis/data_quality_report/", "quality_assessment.json">>,
     <<"complete_analysis/exploratory_analysis/", "exploratory_analysis_results.json">>,
     <<"complete_analysis/hypothesis_reports/", "research_hypotheses.json">>,
     <<"complete_analysis/visualizations/", "visualization_index.json">>}

\* C10 as stated: each of the four JSON result files is a mapping at the top
\* level and every top-level key is the name of a loaded dataset.
C10_TopLevelKeysAreDatasets ==
    \A p \in JsonResults \cap DOMAIN files :
       /\ files[p].content.kind = "mapping"
       /\ files[p].content.keys \subseteq loaded[files[p].writer]

\* C10 amended: quality_assessment.json is a mapping keyed by exactly the
\* loaded dataset names; exploratory_analysis_results.json is a mapping keyed
\* by the loaded dataset names and "_cross_dataset_analysis";
\* research_hypotheses.json is a list; visualization_index.json is a mapping
\* with the keys "total_visualizations" and "charts".
C10_ResultShapes ==
    \A p \in JsonResults \cap DOMAIN files :
       LET c == files[p].content
           names == loaded[files[p].writer]
       IN CASE p[2] = "quality_assessment.json" ->
                  c.kind = "mapping" /\ c.keys = names
            [] p[2] = "exploratory_analysis_results.json" ->
                  c.kind = "mapping" /\ c.keys = names \cup {"_cross_dataset_analysis"}
            [] p[2] = "research_hypotheses.json" -> c.kind = "list"
            [] p[2] = "visualization_index.json" ->
                  c.kind = "mapping" /\ c.keys = {"total_visualizations", "charts"}

\* All four result files have been written from loaded datasets.
C10_Witness ==
    /\ JsonResults \subseteq DOMAIN files
    /\ \A p \in JsonResults : loaded[files[p].writer] # {}

\* ---- C11, C12: CompleteAnalysisPipeline

\* The tables run() hands to an analysis function.
AnalysisInputs == Range(CleanNames)

\* C11: in a run of CompleteAnalysisPipeline.run, every table that has been
\* passed to an EcommerceAnalyzer analysis function was passed to
\* DataQualityValidator.validate_dataset earlier in the same run. The
\* analyzer is called in stage 3 and the validator in stage 2 only, so the
\* tables analyzed must be among those validated.
C11_AnalyzedTablesWereValidated ==
    analyzed \cap AnalysisInputs \subseteq validated

\* C12: once export_results has run on the results run() returned, every
\* value of the converted results is JSON-serializable at any depth, keys
\* included, so json.dump did not raise and analysis_results.json is written.
C12_ExportedResultsAreJson ==
    exported.status # "not run" =>
        /\ JsonSerializable(exported.serializable_results)
        /\ exported.status = "written"

\* ---- C13, C14: DataQualityValidator

\* The cells of a table that are missing, counted row by row.
RECURSIVE CountMissing(_)
CountMissing(table) ==
    IF table = <<>> THEN 0
    ELSE Cardinality({c \in DOMAIN Head(table) : Head(table)[c] = Missing})
         + CountMissing(Tail(table))

\* The cells of a table.
CountCells(table) == Cardinality({<<i, c>> : i \in 1..Len(table), c \in FrameColumns})

\* C13: for a table with at least one cell, check_completeness returns
\* completeness_score = (1 - missing_cells / total_cells) * 100; the score is
\* strictly below 100 whenever a cell is missing and is 100 exactly when no
\* cell is missing.
C13_CompletenessScore ==
    ("check_completeness" \in called /\ CountCells(frame) >= 1) =>
        \A s \in {completeness.completeness_score} :
        \A missing \in {CountMissing(frame)} :
        \A total \in {CountCells(frame)} :
            /\ "num" \in DOMAIN s
            /\ s.den > 0
            /\ s.num * total = (total - missing) * 100 * s.den
            /\ missing >= 1 => s.num < 100 * s.den
            /\ s.num = 100 * s.den <=> missing = 0

\* check_completeness has scored a table in which one row misses both of
\* its cells and another row misses none.
C13_Witness ==
    /\ "check_completeness" \in called
    /\ \E i, j \in 1..Len(frame) :
          /\ \A c \in FrameColumns : frame[i][c] = Missing
          /\ \A c \in FrameColumns : frame[j][c] # Missing
    /\ completeness.completeness_score.num < 100 * completeness.completeness_score.den
    /\ completeness.completeness_score.num > 0

\* The rows that repeat an earlier row as a whole.
RepeatedRows == {i \in 1..Len(frame) : \E j \in 1..(i - 1) : frame[j] = frame[i]}

\* The rows whose value in a column is the value of an earlier row.
RepeatedValues(c) == {i \in 1..Len(frame) : \E j \in 1..(i - 1) : frame[j][c] = frame[i][c]}

\* C14: check_consistency returns duplicate_rows = the number of rows that
\* repeat an earlier row in every column; a row that shares only its id with
\* an earlier row is not counted there but under
\* id_column_issues.duplicate_ids; a table whose rows are pairwise different
\* has duplicate_rows = 0.
C14_DuplicateRows ==
    "check_consistency" \in called =>
        /\ consistency.duplicate_rows = Cardinality(RepeatedRows)
        /\ consistency.id_column_issues["id"].duplicate_ids = Cardinality(RepeatedValues("id"))
        /\ consistency.duplicate_rows
              <= Cardinality(RepeatedValues("id") \cap RepeatedValues("value"))
        /\ (\A i, j \in 1..Len(frame) : i # j => frame[i] # frame[j])
              => consistency.duplicate_rows = 0

\* check_consistency has examined a table with a row that repeats an earlier
\* row and another that shares only its id with an earlier row.
C14_Witness ==
    /\ "check_consistency" \in called
    /\ Len(frame) = 3
    /\ frame[2] = frame[1]
    /\ frame[3]["id"] = frame[1]["id"]
    /\ frame[3]["value"] # frame[1]["value"]
    /\ consistency.duplicate_rows = 1
    /\ consistency.id_column_issues["id"].duplicate_ids = 2

\* ---- C15, C16: EcommerceAnalyzer

\* The rows of the orders table that have a purchase timestamp.
TimestampedRows ==
    {i \in 1..Len(orders_df.rows) : orders_df.rows[i]["order_purchase_timestamp"] # Missing}

\* The purchase dates of the orders table.
PurchaseDates ==
    {[year |-> t.year, month |-> t.month, day |-> t.day] :
        t \in {orders_df.rows[i]["order_purchase_timestamp"][1] : i \in TimestampedRows}}

\* The customer_id values of the orders table.
CustomerIdValues ==
    {orders_df.rows[i]["customer_id"][1] :
        i \in {k \in 1..Len(orders_df.rows) : orders_df.rows[k]["customer_id"] # Missing}}

\* C15: for any orders table with the columns order_id, customer_id and
\* order_purchase_timestamp, calculate_order_metrics returns total_orders =
\* the number of rows, unique_customers = the number of distinct customer_id
\* values and avg_orders_per_day = total_orders divided by the number of
\* distinct purchase dates.
C15_OrderMetrics ==
    ("calculate_order_metrics" \in called
        /\ {"order_id", "customer_id", "order_purchase_timestamp"} \subseteq orders_df.columns) =>
        /\ ~order_metrics.raised
        /\ order_metrics.metrics["total_orders"] = Len(orders_df.rows)
        /\ order_metrics.metrics["unique_customers"] = Cardinality(CustomerIdValues)
        /\ order_metrics.metrics["avg_orders_per_day"].den = Cardinality(PurchaseDates)
        /\ order_metrics.metrics["avg_orders_per_day"].num = Len(orders_df.rows)

\* The sum of the counts of a distribution.
Total(distribution) == SumOf(distribution, DOMAIN distribution)

HypothesesPath == <<HypothesisDir, "research_hypotheses.json">>

VisualizationIndexPath == <<VisualizationDir, "visualization_index.json">>

WorkflowLogPath == <<OutputDir, "workflow_log.md">>

\* The hypothesis stage runs again and, for the first time, finds the
\* exploratory results to read.
FirstRunWithEdaResults ==
    /\ status["HypothesisGenerator"] = "complete"
    /\ status'["HypothesisGenerator"] = "complete"
    /\ <<"HypothesisGenerator", EdaResultsPath>> \notin reads
    /\ <<"HypothesisGenerator", EdaResultsPath>> \in reads'

\* C17: the list of hypotheses run_hypothesis_generation returns depends on
\* the exploratory results load_data reads: on the same CSV files, a run
\* that finds the exploratory results file gives another list than the run
\* before it that found none.
C17_EdaResultsChangeHypotheses ==
    [][FirstRunWithEdaResults => files'[HypothesesPath] # files[HypothesesPath]]_vars

\* What the code does instead: on the same CSV files every run of the
\* hypothesis stage saves the same list, whatever exploratory results file
\* it found.
C17_HypothesesIgnoreEdaResults ==
    [][(status["HypothesisGenerator"] = "complete"
            /\ status'["HypothesisGenerator"] = "complete")
        => files'[HypothesesPath] = files[HypothesesPath]]_vars

\* C18: whenever stage 6 has written its reports and stages 3 and 4 have run
\* on the same data_dir, research_hypotheses.json holds 14 hypotheses over
\* 10 distinct categories and total_visualizations is 13, as the report says.
C18_CountsAreAsReported ==
    (/\ status["ReportGenerator"] = "complete"
     /\ status["HypothesisGenerator"] = "complete"
     /\ status["DataVisualization"] = "complete") =>
        \A hypotheses \in {files[HypothesesPath].content.body} :
            /\ Cardinality(hypotheses) = StatedHypotheses
            /\ Cardinality({HypothesisCategory[h] : h \in hypotheses}) = StatedCategories
            /\ Cardinality(files[VisualizationIndexPath].content.body) = StatedVisualizations

\* C19: workflow_log.md declares a stage completed only if that stage has
\* run: the stage's output file the log lists under 'Files Generated' exists
\* when the log is written. No file is ever removed, so a listed file that is
\* missing now was missing then.
C19_LogDeclaresOnlyStagesThatRan ==
    WorkflowLogPath \in DOMAIN files =>
        \A s \in WorkflowLogStages :
            /\ status[s] = "complete"
            /\ WorkflowLogFiles[s] \in DOMAIN files

\* ---- C20: DataQualityAssessment

\* The date columns of the dataset whose most recent date is less than 30
\* days old, found column by column.
RecentDateColumns ==
    {c \in DOMAIN quality_df.dates :
        \E i \in 1..Len(quality_df.dates[c]) :
            /\ quality_df.dates[c][i] # Missing
            /\ quality_df.dates[c][i][1] < RecentDays}

QualityResultsPath == <<QualityDir, "quality_assessment.json">>

C21_LoadAllDataKeepsReadableFiles ==
    run_pc # "start" =>
        data_keys \cap Range(RawNames) = {n \in Range(RawNames) : raw[n] # "absent"}

NegativeAmountColumns(table) ==
    {col \in {"price", "freight_value"} : \E i \in 1..Len(table[col]) : table[col][i][1] < 0}

\* The tables that differ from the given one in one cell, hold negative
\* amounts in the same columns, and have another number of outliers.
SameButForOutliers(table) ==
    {other \in {[table EXCEPT ![col][i] = <<v>>] :
                    col \in {"price", "order_item_id"},
                    i \in 1..Len(table.price),
                    v \in {0 - 1, 0, 1}} :
        /\ other \in AccuracyTables
        /\ NegativeAmountColumns(other) = NegativeAmountColumns(table)
        /\ assess_accuracy_result(other).outlier_count # accuracy_result.outlier_count}

\* C22: accuracy_score is max(0, 100 - 5 per data issue - 3 per type issue),
\* with one data issue for each numeric column named after a price, quantity,
\* amount or value that holds a negative value; outlier_count is reported
\* beside it and does not enter it, so a table that differs only in its
\* number of outliers gets the same accuracy_score.
C22_AccuracyScoreIgnoresOutliers ==
    "run_assess_accuracy" \in called =>
        /\ accuracy_result.data_issues = NegativeAmountColumns(accuracy_df)
        /\ accuracy_result.accuracy_score =
              Max(0, 10000 - 500 * Cardinality(NegativeAmountColumns(accuracy_df))
                           - 300 * Cardinality(accuracy_result.type_issues))
        /\ accuracy_result.outlier_count \in Nat
        /\ \A other \in SameButForOutliers(accuracy_df) :
              assess_accuracy_result(other).accuracy_score = accuracy_result.accuracy_score

\* A table with a negative price and outliers has been scored 95, and a table
\* that differs from it in one cell has no outlier at all.
C22_Witness ==
    /\ "run_assess_accuracy" \in called
    /\ accuracy_result.accuracy_score = 9500
    /\ accuracy_result.outlier_count > 0
    /\ \E other \in SameButForOutliers(accuracy_df) :
          assess_accuracy_result(other).outlier_count = 0

\* ---- C23: validate_dataset

\* C23: for a table with at least one row and one column, validate_dataset
\* returns overall_score = 0.4 * completeness_score + 0.3 * 85
\* + 0.3 * (100 - min(percentage of duplicate rows, 100)); the score lies
\* between 25.5 and 95.5, so it never reaches 100, and it is a function of
\* the missing cells and the duplicate rows alone: the outliers and the id
\* issues that the checks find do not change it.
C23_OverallScoreRange ==
    ("validate_dataset" \in called /\ Len(frame) >= 1 /\ CountCells(frame) >= 1) =>
        /\ validation.raised = ""
        /\ \A s \in {validation.overall_score} :
           \A n \in {Len(frame)} :
           \A total \in {CountCells(frame)} :
           \A missing \in {CountMissing(frame)} :
           \A repeated \in {Cardinality(RepeatedRows)} :
              /\ s.den > 0
              /\ s.num * (10 * total * n) =
                    s.den * (4 * (total - missing) * 100 * n
                             + 255 * total * n
                             + 3 * (100 * n - Min(100 * repeated, 100 * n)) * total)
              /\ 255 * s.den <= 10 * s.num
              /\ 10 * s.num <= 955 * s.den
              /\ s.num < 100 * s.den

\* validate_dataset has scored a table in which check_accuracy found an
\* outlier and check_consistency a missing and a repeated id, while no row
\* repeats another.
C23_Witness ==
    /\ "validate_dataset" \in called
    /\ Len(frame) >= 1
    /\ validation.raised = ""
    /\ \E col \in DOMAIN validation.accuracy.columns_with_outliers :
          validation.accuracy.columns_with_outliers[col] > 0
    /\ validation.consistency.id_column_issues["id"].null_ids > 0
    /\ validation.consistency.id_column_issues["id"].duplicate_ids > 0
    /\ validation.consistency.duplicate_rows = 0

\* The highest score, 95.5, is that of a table without a missing cell or a
\* repeated row.
C23_HighestScore ==
    /\ "validate_dataset" \in called
    /\ Len(frame) >= 1
    /\ 10 * validation.overall_score.num = 955 * validation.overall_score.den

=============================================================================
